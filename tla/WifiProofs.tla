----------------------------- MODULE WifiProofs -----------------------------
(***************************************************************************)
(* Proofs about Wifi: for any number of threads that call any actions at   *)
(* once, the bits of APP_STATE follow the driver.                          *)
(*                                                                         *)
(* What the bits say lags behind the driver by the events that wait in the *)
(* queue.  The invariant says that the last event posted about the link    *)
(* (about the AP) tells its present state, and that the bit does when no   *)
(* such event is left.                                                     *)
(*                                                                         *)
(* The second half is about the answer of a connect: with one action at a  *)
(* time, STATE_CONNECTING and sta_retry_num belong to the caller that      *)
(* waits, and a bit that is raised has somebody left to clear it.          *)
(***************************************************************************)
EXTENDS Wifi, SequenceTheorems, TLAPS

LinkEvs == {"STA_CONNECTED", "ASSOC_LEAVE", "DISCONNECTED", "NO_AP_FOUND"}
ApEvs   == {"AP_START", "AP_STOP"}

\* The events that tell the present state of the link, and of the AP.
LinkTold == IF link = "connected" THEN {"STA_CONNECTED"} ELSE LinkEvs \ {"STA_CONNECTED"}
ApTold   == IF ApUp THEN {"AP_START"} ELSE {"AP_STOP"}

\* No element of q is in K; the last one that is in K, if any, is in G.
NoneOf(q, K) == \A i \in 1..Len(q) : q[i] \notin K
LastIn(q, K, G) ==
    \A i \in 1..Len(q) :
        q[i] \in K /\ (\A j \in 1..Len(q) : j > i => q[j] \notin K) => q[i] \in G

LinkNeedsSta == link # "idle" => StaUp

LinkInv ==
    /\ LastIn(queue, LinkEvs, LinkTold)
    /\ NoneOf(queue, LinkEvs) =>
          /\ epc = "handle" /\ ev \in LinkEvs => ev \in LinkTold
          /\ epc = "connected" => link = "connected"
          /\ ~(epc = "handle" /\ ev \in LinkEvs) /\ epc # "connected" =>
                 ("sta_connected" \in bits <=> link = "connected")

ApInv ==
    /\ LastIn(queue, ApEvs, ApTold)
    /\ NoneOf(queue, ApEvs) =>
          /\ epc = "handle" /\ ev \in ApEvs => ev \in ApTold
          /\ ~(epc = "handle" /\ ev \in ApEvs) => ("ap_started" \in bits => ApUp)

IInv == TypeOK /\ LinkNeedsSta /\ LinkInv /\ ApInv

-----------------------------------------------------------------------------
(* Sequences of events.                                                     *)

\* Events of other kinds tell nothing.
LEMMA Quiet ==
    ASSUME NEW q \in Seq(Events), NEW t \in Seq(Events), NEW K, NEW G, NoneOf(t, K)
    PROVE  /\ q \o t \in Seq(Events)
           /\ LastIn(q \o t, K, G) <=> LastIn(q, K, G)
           /\ NoneOf(q \o t, K) <=> NoneOf(q, K)
  <1>1. /\ q \o t \in Seq(Events) /\ Len(q \o t) = Len(q) + Len(t)
        /\ Len(q) \in Nat /\ Len(t) \in Nat
        /\ \A i \in 1..Len(q) : (q \o t)[i] = q[i]
        /\ \A i \in 1..Len(q \o t) : i > Len(q) => (q \o t)[i] \notin K
    BY DEF NoneOf
  <1>2. NoneOf(q \o t, K) <=> NoneOf(q, K)
    BY <1>1 DEF NoneOf
  <1>3. LastIn(q \o t, K, G) => LastIn(q, K, G)
    BY <1>1 DEF LastIn
  <1>4. LastIn(q, K, G) => LastIn(q \o t, K, G)
    BY <1>1 DEF LastIn
  <1> QED BY <1>1, <1>2, <1>3, <1>4

\* An event of the kind is the last one.
LEMMA Loud ==
    ASSUME NEW q \in Seq(Events), NEW e \in Events, NEW K, NEW G, e \in K, e \in G
    PROVE  /\ q \o <<e>> \in Seq(Events)
           /\ LastIn(q \o <<e>>, K, G)
           /\ ~NoneOf(q \o <<e>>, K)
  <1>1. /\ q \o <<e>> \in Seq(Events) /\ Len(q \o <<e>>) = Len(q) + 1
        /\ Len(q) \in Nat /\ (q \o <<e>>)[Len(q) + 1] = e
    OBVIOUS
  <1> QED BY <1>1 DEF LastIn, NoneOf

\* The first event leaves the queue.
LEMMA First ==
    ASSUME NEW q \in Seq(Events), q # <<>>, NEW K, NEW G, LastIn(q, K, G)
    PROVE  /\ Head(q) \in Events /\ Tail(q) \in Seq(Events)
           /\ LastIn(Tail(q), K, G)
           /\ NoneOf(Tail(q), K) => (Head(q) \in K => Head(q) \in G)
           /\ NoneOf(Tail(q), K) /\ Head(q) \notin K => NoneOf(q, K)
  <1>1. /\ Head(q) \in Events /\ Tail(q) \in Seq(Events) /\ Head(q) = q[1]
        /\ Len(q) \in Nat /\ Len(q) >= 1 /\ Len(Tail(q)) = Len(q) - 1
        /\ \A i \in 1..Len(Tail(q)) : Tail(q)[i] = q[i + 1]
    OBVIOUS
  <1>2. \A i \in 1..Len(q) : i > 1 => i - 1 \in 1..Len(Tail(q)) /\ q[i] = Tail(q)[i - 1]
    BY <1>1
  <1>3. LastIn(Tail(q), K, G)
    <2> SUFFICES ASSUME NEW i \in 1..Len(Tail(q)), Tail(q)[i] \in K,
                        \A j \in 1..Len(Tail(q)) : j > i => Tail(q)[j] \notin K
                 PROVE  Tail(q)[i] \in G
      BY DEF LastIn
    <2>1. \A j \in 1..Len(q) : j > i + 1 => q[j] \notin K
      BY <1>1, <1>2
    <2>2. i + 1 \in 1..Len(q) /\ q[i + 1] = Tail(q)[i]
      BY <1>1
    <2> QED BY <2>1, <2>2 DEF LastIn
  <1>4. NoneOf(Tail(q), K) => \A j \in 1..Len(q) : j > 1 => q[j] \notin K
    BY <1>2 DEF NoneOf
  <1>5. NoneOf(Tail(q), K) => (Head(q) \in K => Head(q) \in G)
    BY <1>1, <1>4 DEF LastIn
  <1>6. NoneOf(Tail(q), K) /\ Head(q) \notin K => NoneOf(q, K)
    BY <1>1, <1>4 DEF NoneOf
  <1> QED BY <1>1, <1>3, <1>5, <1>6

\* An event of no kind of interest, or none.
LEMMA Unit ==
    ASSUME NEW i, NEW b, NEW e \in Events, NEW K
    PROVE  /\ EventIf(i, b, e) \in Seq(Events)
           /\ e \notin K => NoneOf(EventIf(i, b, e), K)
           /\ i \notin b => NoneOf(EventIf(i, b, e), K)
           /\ i \in b => EventIf(i, b, e) = <<e>>
  BY DEF EventIf, NoneOf

-----------------------------------------------------------------------------
(* What each kind of step does to the invariant.                            *)

\* A change of the interfaces posts what it does to the link and to the AP.
LEMMA ReconfigureTells ==
    ASSUME TypeOK, LinkNeedsSta,
           LastIn(queue, LinkEvs, LinkTold), LastIn(queue, ApEvs, ApTold),
           NEW md \in SUBSET Ifaces, NEW s \in BOOLEAN, Reconfigure(md, s)
    PROVE  /\ mode' \subseteq Ifaces /\ started' \in BOOLEAN
           /\ link' \in {"idle", "connecting", "connected"} /\ queue' \in Seq(Events)
           /\ LinkNeedsSta'
           /\ LastIn(queue', LinkEvs, LinkTold')
           /\ NoneOf(queue', LinkEvs) =>
                  NoneOf(queue, LinkEvs) /\ (link' = "connected" <=> link = "connected")
           /\ LastIn(queue', ApEvs, ApTold')
           /\ NoneOf(queue', ApEvs) => NoneOf(queue, ApEvs) /\ (ApUp' <=> ApUp)
  <1> DEFINE was == IF started THEN mode ELSE {}
             now == IF s THEN md ELSE {}
             staOff == EventIf("sta", was \ now, "STA_STOP")
             apOff  == EventIf("ap", was \ now, "AP_STOP")
             staOn  == EventIf("sta", now \ was, "STA_START")
             apOn   == EventIf("ap", now \ was, "AP_START")
  <1>1. /\ mode' = md /\ started' = s
        /\ link' = IF "sta" \in now THEN link ELSE "idle"
    BY DEF Reconfigure
  <1>2. PICK left \in (IF "sta" \in was \ now THEN Leaving ELSE {<<>>}) :
            queue' = queue \o left \o staOff \o apOff \o staOn \o apOn
    BY DEF Reconfigure
  <1>3. \/ left = <<>> /\ (link' = "connected" <=> link = "connected")
        \/ left = <<"ASSOC_LEAVE">> /\ link' = "idle"
    <2>1. CASE "sta" \in was \ now
      BY <2>1, <1>1, <1>2 DEF Leaving
    <2>2. CASE "sta" \notin was \ now
      BY <2>2, <1>1, <1>2 DEF LinkNeedsSta, StaUp
    <2> QED BY <2>1, <2>2
  <1>4. /\ link' \in {"idle", "connecting", "connected"}
        /\ LinkNeedsSta'
    BY <1>1 DEF TypeOK, LinkNeedsSta, StaUp
  <1>5. /\ ApUp <=> "ap" \in was
        /\ ApUp' <=> "ap" \in now
    BY <1>1 DEF ApUp
  <1>6. /\ "ASSOC_LEAVE" \in Events /\ "ASSOC_LEAVE" \in LinkEvs /\ "ASSOC_LEAVE" \notin ApEvs
        /\ "STA_STOP" \in Events /\ "STA_STOP" \notin LinkEvs /\ "STA_STOP" \notin ApEvs
        /\ "AP_STOP" \in Events /\ "AP_STOP" \notin LinkEvs /\ "AP_STOP" \in ApEvs
        /\ "STA_START" \in Events /\ "STA_START" \notin LinkEvs /\ "STA_START" \notin ApEvs
        /\ "AP_START" \in Events /\ "AP_START" \notin LinkEvs /\ "AP_START" \in ApEvs
    BY DEF Events, LinkEvs, ApEvs
  <1>7. /\ staOff \in Seq(Events) /\ NoneOf(staOff, LinkEvs) /\ NoneOf(staOff, ApEvs)
        /\ apOff \in Seq(Events) /\ NoneOf(apOff, LinkEvs)
        /\ staOn \in Seq(Events) /\ NoneOf(staOn, LinkEvs) /\ NoneOf(staOn, ApEvs)
        /\ apOn \in Seq(Events) /\ NoneOf(apOn, LinkEvs)
    <2>1. staOff \in Seq(Events) /\ NoneOf(staOff, LinkEvs) /\ NoneOf(staOff, ApEvs)
      BY <1>6, Unit
    <2>2. apOff \in Seq(Events) /\ NoneOf(apOff, LinkEvs)
      BY <1>6, Unit
    <2>3. staOn \in Seq(Events) /\ NoneOf(staOn, LinkEvs) /\ NoneOf(staOn, ApEvs)
      BY <1>6, Unit
    <2>4. apOn \in Seq(Events) /\ NoneOf(apOn, LinkEvs)
      BY <1>6, Unit
    <2> QED BY <2>1, <2>2, <2>3, <2>4
  <1>8. /\ "ap" \in was \ now => apOff = <<"AP_STOP">>
        /\ "ap" \notin was \ now => NoneOf(apOff, ApEvs)
        /\ "ap" \in now \ was => apOn = <<"AP_START">>
        /\ "ap" \notin now \ was => NoneOf(apOn, ApEvs)
    <2>1. "ap" \in was \ now => apOff = <<"AP_STOP">>
      BY DEF EventIf
    <2>2. "ap" \notin was \ now => NoneOf(apOff, ApEvs)
      BY <1>6, Unit
    <2>3. "ap" \in now \ was => apOn = <<"AP_START">>
      BY DEF EventIf
    <2>4. "ap" \notin now \ was => NoneOf(apOn, ApEvs)
      BY <1>6, Unit
    <2> QED BY <2>1, <2>2, <2>3, <2>4
  <1> DEFINE q1 == queue \o left
             q2 == q1 \o staOff
             q3 == q2 \o apOff
             q4 == q3 \o staOn
             q5 == q4 \o apOn
  <1>9. queue' = q5
    BY <1>2
  <1>10. /\ q1 \in Seq(Events)
         /\ LastIn(q1, LinkEvs, LinkTold')
         /\ NoneOf(q1, LinkEvs) =>
                NoneOf(queue, LinkEvs) /\ (link' = "connected" <=> link = "connected")
         /\ LastIn(q1, ApEvs, ApTold)
         /\ NoneOf(q1, ApEvs) => NoneOf(queue, ApEvs)
    <2>1. queue \in Seq(Events)
      BY DEF TypeOK
    <2>2. left \in Seq(Events) /\ NoneOf(left, ApEvs)
      <3>1. <<>> \in Seq(Events) /\ NoneOf(<<>>, ApEvs)
        BY DEF NoneOf
      <3>2. <<"ASSOC_LEAVE">> \in Seq(Events) /\ NoneOf(<<"ASSOC_LEAVE">>, ApEvs)
        BY <1>6 DEF NoneOf
      <3> QED BY <3>1, <3>2, <1>3
    <2>3. /\ q1 \in Seq(Events)
          /\ LastIn(q1, ApEvs, ApTold)
          /\ NoneOf(q1, ApEvs) => NoneOf(queue, ApEvs)
      BY <2>1, <2>2, Quiet
    <2>4. CASE left = <<>> /\ (link' = "connected" <=> link = "connected")
      <3>1. LinkTold' = LinkTold
        BY <2>4 DEF LinkTold
      <3>2. /\ LastIn(q1, LinkEvs, LinkTold)
            /\ NoneOf(q1, LinkEvs) => NoneOf(queue, LinkEvs)
        BY <2>1, <2>4 DEF NoneOf
      <3> QED BY <3>1, <3>2, <2>4, <2>3
    <2>5. CASE left = <<"ASSOC_LEAVE">> /\ link' = "idle"
      <3>1. "ASSOC_LEAVE" \in LinkTold'
        BY <2>5 DEF LinkTold, LinkEvs
      <3>2. LastIn(q1, LinkEvs, LinkTold') /\ ~NoneOf(q1, LinkEvs)
        BY <2>1, <2>5, <3>1, <1>6, Loud
      <3> QED BY <3>2, <2>3
    <2> QED BY <2>4, <2>5, <1>3
  <1>11. q2 = q1 \o staOff /\ q3 = q2 \o apOff /\ q4 = q3 \o staOn /\ q5 = q4 \o apOn
    OBVIOUS
  <1> HIDE DEF q1, q2, q3, q4, q5, staOff, apOff, staOn, apOn, was, now
  <1>12. /\ q2 \in Seq(Events) /\ q3 \in Seq(Events)
         /\ q4 \in Seq(Events) /\ q5 \in Seq(Events)
    BY <1>10, <1>7, <1>11
  <1>13. /\ LastIn(q5, LinkEvs, LinkTold')
         /\ NoneOf(q5, LinkEvs) => NoneOf(q1, LinkEvs)
    <2>1. LastIn(q2, LinkEvs, LinkTold') /\ (NoneOf(q2, LinkEvs) => NoneOf(q1, LinkEvs))
      BY <1>10, <1>7, <1>11, Quiet
    <2>2. LastIn(q3, LinkEvs, LinkTold') /\ (NoneOf(q3, LinkEvs) => NoneOf(q1, LinkEvs))
      BY <2>1, <1>7, <1>11, <1>12, Quiet
    <2>3. LastIn(q4, LinkEvs, LinkTold') /\ (NoneOf(q4, LinkEvs) => NoneOf(q1, LinkEvs))
      BY <2>2, <1>7, <1>11, <1>12, Quiet
    <2> QED BY <2>3, <1>7, <1>11, <1>12, Quiet
  <1>14. LastIn(q2, ApEvs, ApTold) /\ (NoneOf(q2, ApEvs) => NoneOf(queue, ApEvs))
    BY <1>10, <1>7, <1>11, Quiet
  <1>15. /\ LastIn(q5, ApEvs, ApTold')
         /\ NoneOf(q5, ApEvs) => NoneOf(queue, ApEvs) /\ (ApUp' <=> ApUp)
    <2>1. CASE "ap" \in was /\ "ap" \notin now
      <3>1. NoneOf(apOn, ApEvs) /\ apOff = <<"AP_STOP">> /\ "AP_STOP" \in ApTold'
        BY <1>5, <1>8, <2>1 DEF ApTold
      <3>2. LastIn(q3, ApEvs, ApTold') /\ ~NoneOf(q3, ApEvs)
        BY <3>1, <1>6, <1>11, <1>12, Loud
      <3>3. LastIn(q4, ApEvs, ApTold') /\ (NoneOf(q4, ApEvs) => NoneOf(q3, ApEvs))
        <4>1. LastIn(q3, ApEvs, ApTold')
          BY <3>2
        <4>2. staOn \in Seq(Events) /\ NoneOf(staOn, ApEvs)
          BY <1>7
        <4> QED BY <4>1, <4>2, <1>11, <1>12, Quiet
      <3>4. LastIn(q5, ApEvs, ApTold') /\ (NoneOf(q5, ApEvs) => NoneOf(q4, ApEvs))
        BY <3>1, <3>3, <1>7, <1>11, <1>12, Quiet
      <3> QED BY <3>2, <3>3, <3>4
    <2>2. CASE "ap" \notin was /\ "ap" \in now
      <3>1. apOn = <<"AP_START">> /\ "AP_START" \in ApTold'
        BY <1>5, <1>8, <2>2 DEF ApTold
      <3> QED BY <3>1, <1>6, <1>11, <1>12, Loud
    <2>3. CASE "ap" \in was <=> "ap" \in now
      <3>1. /\ ApTold' = ApTold /\ (ApUp' <=> ApUp)
            /\ NoneOf(apOff, ApEvs) /\ NoneOf(apOn, ApEvs)
        BY <1>5, <1>8, <2>3 DEF ApTold
      <3>2. LastIn(q3, ApEvs, ApTold') /\ (NoneOf(q3, ApEvs) => NoneOf(queue, ApEvs))
        BY <3>1, <1>14, <1>7, <1>11, <1>12, Quiet
      <3>3. LastIn(q4, ApEvs, ApTold') /\ (NoneOf(q4, ApEvs) => NoneOf(queue, ApEvs))
        BY <3>2, <1>7, <1>11, <1>12, Quiet
      <3> QED BY <3>1, <3>3, <1>7, <1>11, <1>12, Quiet
    <2> QED BY <2>1, <2>2, <2>3
  <1> QED BY <1>1, <1>4, <1>10, <1>13, <1>15, <1>9, <1>12

\* A step that neither posts nor takes an event nor touches the two bits but
\* to clear STATE_AP_STARTED.
LEMMA Unmoved ==
    ASSUME LinkInv, ApInv, queue' = queue, mode' = mode, started' = started,
           link' = "connected" <=> link = "connected", epc' = epc, ev' = ev,
           "sta_connected" \in bits' <=> "sta_connected" \in bits,
           "ap_started" \in bits' => "ap_started" \in bits
    PROVE  LinkInv' /\ ApInv'
  <1>1. LinkTold' = LinkTold /\ ApTold' = ApTold /\ (ApUp' <=> ApUp)
    BY DEF LinkTold, ApTold, ApUp
  <1>2. LinkInv'
    BY <1>1 DEF LinkInv
  <1>3. ApInv'
    BY <1>1 DEF ApInv
  <1> QED BY <1>2, <1>3

LEMMA Moved ==
    ASSUME TypeOK, LinkNeedsSta, LinkInv, ApInv,
           NEW md \in SUBSET Ifaces, NEW s \in BOOLEAN, Reconfigure(md, s),
           bits' = bits, epc' = epc, ev' = ev
    PROVE  /\ mode' \subseteq Ifaces /\ started' \in BOOLEAN
           /\ link' \in {"idle", "connecting", "connected"} /\ queue' \in Seq(Events)
           /\ LinkNeedsSta' /\ LinkInv' /\ ApInv'
  <1>1. LastIn(queue, LinkEvs, LinkTold) /\ LastIn(queue, ApEvs, ApTold)
    BY DEF LinkInv, ApInv
  <1>2. /\ mode' \subseteq Ifaces /\ started' \in BOOLEAN
        /\ link' \in {"idle", "connecting", "connected"} /\ queue' \in Seq(Events)
        /\ LinkNeedsSta'
        /\ LastIn(queue', LinkEvs, LinkTold')
        /\ NoneOf(queue', LinkEvs) =>
               NoneOf(queue, LinkEvs) /\ (link' = "connected" <=> link = "connected")
        /\ LastIn(queue', ApEvs, ApTold')
        /\ NoneOf(queue', ApEvs) => NoneOf(queue, ApEvs) /\ (ApUp' <=> ApUp)
    BY <1>1, ReconfigureTells
  <1>3. LinkInv'
    <2>1. (link' = "connected" <=> link = "connected") => LinkTold' = LinkTold
      BY DEF LinkTold
    <2> QED BY <1>2, <2>1 DEF LinkInv
  <1>4. ApInv'
    <2>1. (ApUp' <=> ApUp) => ApTold' = ApTold
      BY DEF ApTold
    <2> QED BY <1>2, <2>1 DEF ApInv
  <1> QED BY <1>2, <1>3, <1>4

\* Nothing is left but the flash.
LEMMA Restarted ==
    ASSUME TypeOK, Restart
    PROVE  IInv'
  <1>1. /\ queue' = <<>> /\ link' = "idle" /\ started' = FALSE /\ bits' = {}
        /\ epc' = "idle" /\ ev' = "none"
    BY DEF Restart
  <1>2. TypeOK'
    <2>1. queue' \in Seq(Events) /\ bits' \subseteq Bits
      BY <1>1
    <2>2. retry' \in 0..MaxRetry /\ calls' \in 0..MaxCalls
      BY Assumptions DEF Restart
    <2>3. /\ pc' \in [Callers -> CPc] /\ op' \in [Callers -> Actions \union {"none", "join"}]
          /\ got' \in [Callers -> SUBSET Ifaces]
      BY DEF Restart, CPc
    <2>4. epc' \in EPc /\ ev' \in Events \union {"none"}
      BY <1>1 DEF EPc
    <2> QED BY <1>1, <2>1, <2>2, <2>3, <2>4 DEF TypeOK, Restart, flash
  <1>3. LastIn(queue', LinkEvs, LinkTold') /\ LastIn(queue', ApEvs, ApTold')
    BY <1>1 DEF LastIn
  <1>4. LinkNeedsSta' /\ LinkInv' /\ ApInv'
    BY <1>1, <1>3 DEF LinkNeedsSta, LinkInv, ApInv, LinkEvs, ApEvs
  <1> QED BY <1>2, <1>4 DEF IInv

-----------------------------------------------------------------------------
(* The steps of the event task and of the link.                             *)

LEMMA EventStep ==
    ASSUME IInv, HandleEvent
    PROVE  IInv'
  <1> USE DEF IInv, EGoto, flash, driver, app, task, callers
  <1> TypeOK /\ LinkNeedsSta /\ LinkInv /\ ApInv
    OBVIOUS
  <1>1. CASE Take
    <2>1. /\ queue # <<>> /\ queue \in Seq(Events)
          /\ LastIn(queue, LinkEvs, LinkTold) /\ LastIn(queue, ApEvs, ApTold)
      BY <1>1 DEF Take, TypeOK, LinkInv, ApInv
    <2>2. /\ ev' = Head(queue) /\ queue' = Tail(queue) /\ epc = "idle" /\ epc' = "handle"
          /\ UNCHANGED <<mode, auto, apNamed, started, link, bits, retry, up, pc, op, got, calls>>
      BY <1>1 DEF Take
    <2>3. LinkTold' = LinkTold /\ ApTold' = ApTold /\ (ApUp' <=> ApUp)
      BY <2>2 DEF LinkTold, ApTold, ApUp
    <2>4. /\ ev' \in Events /\ queue' \in Seq(Events)
          /\ LastIn(queue', LinkEvs, LinkTold')
          /\ NoneOf(queue', LinkEvs) => (ev' \in LinkEvs => ev' \in LinkTold')
          /\ NoneOf(queue', LinkEvs) /\ ev' \notin LinkEvs => NoneOf(queue, LinkEvs)
      BY <2>1, <2>2, <2>3, First
    <2>5. /\ LastIn(queue', ApEvs, ApTold')
          /\ NoneOf(queue', ApEvs) => (ev' \in ApEvs => ev' \in ApTold')
          /\ NoneOf(queue', ApEvs) /\ ev' \notin ApEvs => NoneOf(queue, ApEvs)
      BY <2>1, <2>2, <2>3, First
    <2>6. TypeOK'
      BY <2>2, <2>4 DEF TypeOK, EPc
    <2>7. LinkNeedsSta'
      BY <2>2 DEF LinkNeedsSta, StaUp
    <2>8. LinkInv'
      BY <2>2, <2>3, <2>4 DEF LinkInv
    <2>9. ApInv'
      BY <2>2, <2>3, <2>5 DEF ApInv
    <2> QED BY <2>6, <2>7, <2>8, <2>9
  <1>2. CASE GiveUp
    BY <1>2, Restarted DEF GiveUp
  <1>3. CASE Connect
    <2>1. TypeOK'
      BY <1>3 DEF Connect, DriverConnect, TypeOK, EPc
    <2>2. LinkNeedsSta'
      BY <1>3 DEF Connect, DriverConnect, LinkNeedsSta, StaUp
    <2>3. LinkTold' = LinkTold /\ ApTold' = ApTold /\ (ApUp' <=> ApUp)
      BY <1>3 DEF Connect, DriverConnect, LinkTold, ApTold, ApUp
    <2>4. LinkInv' /\ ApInv'
      BY <1>3, <2>3 DEF Connect, DriverConnect, LinkInv, ApInv
    <2> QED BY <2>1, <2>2, <2>4
  <1>4. ASSUME \/ OnApStart \/ OnApStop \/ OnStaStart \/ StartConnecting \/ OnStaStop
               \/ OnStaConnected \/ SetConnected \/ OnAssocLeave
               \/ OnDisconnected \/ Wake \/ Retry
        PROVE  IInv'
    <2>1. UNCHANGED <<mode, auto, apNamed, started, link, queue, ev, up, pc, op, got, calls>>
      BY <1>4 DEF OnApStart, OnApStop, OnStaStart, StartConnecting, OnStaStop,
                  OnStaConnected, SetConnected, OnAssocLeave, OnDisconnected, Wake, Retry
    <2>2. LinkNeedsSta' /\ LinkTold' = LinkTold /\ ApTold' = ApTold /\ (ApUp' <=> ApUp)
      BY <2>1 DEF LinkNeedsSta, StaUp, LinkTold, ApTold, ApUp
    <2>3. CASE OnApStart
      <3>1. TypeOK'
        BY <2>1, <2>3 DEF OnApStart, TypeOK, EPc, Bits
      <3>2. LinkInv'
        BY <2>1, <2>2, <2>3 DEF OnApStart, LinkInv, LinkEvs
      <3>3. ApInv'
        BY <2>1, <2>2, <2>3 DEF OnApStart, ApInv, ApEvs, ApTold
      <3> QED BY <2>2, <3>1, <3>2, <3>3
    <2>4. CASE OnApStop
      <3>1. TypeOK'
        BY <2>1, <2>4 DEF OnApStop, TypeOK, EPc
      <3>2. LinkInv'
        BY <2>1, <2>2, <2>4 DEF OnApStop, LinkInv, LinkEvs
      <3>3. ApInv'
        BY <2>1, <2>2, <2>4 DEF OnApStop, ApInv
      <3> QED BY <2>2, <3>1, <3>2, <3>3
    <2>5. CASE OnStaStart \/ StartConnecting \/ OnStaStop \/ Wake \/ Retry
      <3>1. TypeOK'
        BY <2>1, <2>5 DEF OnStaStart, StartConnecting, OnStaStop, Wake, Retry, TypeOK, EPc, Bits
      <3>2. /\ "sta_connected" \in bits' <=> "sta_connected" \in bits
            /\ "ap_started" \in bits' <=> "ap_started" \in bits
            /\ epc # "connected" /\ epc' \notin {"handle", "connected"}
            /\ epc = "handle" => ev \notin LinkEvs /\ ev \notin ApEvs
        BY <2>5 DEF OnStaStart, StartConnecting, OnStaStop, Wake, Retry, LinkEvs, ApEvs
      <3>3. LinkInv' /\ ApInv'
        BY <2>1, <2>2, <3>2 DEF LinkInv, ApInv
      <3> QED BY <2>2, <3>1, <3>3
    <2>6. CASE OnStaConnected
      <3>1. TypeOK'
        BY <2>1, <2>6 DEF OnStaConnected, TypeOK, EPc
      <3>2. LinkInv'
        BY <2>1, <2>2, <2>6 DEF OnStaConnected, LinkInv, LinkEvs, LinkTold
      <3>3. ApInv'
        BY <2>1, <2>2, <2>6 DEF OnStaConnected, ApInv, ApEvs
      <3> QED BY <2>2, <3>1, <3>2, <3>3
    <2>7. CASE SetConnected
      <3>1. TypeOK'
        BY <2>1, <2>7, Assumptions DEF SetConnected, TypeOK, EPc, Bits
      <3>2. LinkInv'
        BY <2>1, <2>2, <2>7 DEF SetConnected, LinkInv
      <3>3. ApInv'
        BY <2>1, <2>2, <2>7 DEF SetConnected, ApInv
      <3> QED BY <2>2, <3>1, <3>2, <3>3
    <2>8. CASE OnAssocLeave
      <3>1. TypeOK'
        BY <2>1, <2>8 DEF OnAssocLeave, TypeOK, EPc
      <3>2. LinkInv'
        BY <2>1, <2>2, <2>8 DEF OnAssocLeave, LinkInv, LinkEvs, LinkTold
      <3>3. ApInv'
        BY <2>1, <2>2, <2>8 DEF OnAssocLeave, ApInv, ApEvs
      <3> QED BY <2>2, <3>1, <3>2, <3>3
    <2>9. CASE OnDisconnected
      <3>1. TypeOK'
        BY <2>1, <2>9, Assumptions DEF OnDisconnected, TypeOK, EPc
      <3>2. LinkInv'
        BY <2>1, <2>2, <2>9 DEF OnDisconnected, LinkInv, LinkEvs, LinkTold
      <3>3. ApInv'
        BY <2>1, <2>2, <2>9 DEF OnDisconnected, ApInv, ApEvs
      <3> QED BY <2>2, <3>1, <3>2, <3>3
    <2> QED BY <1>4, <2>3, <2>4, <2>5, <2>6, <2>7, <2>8, <2>9
  <1> QED BY <1>1, <1>2, <1>3, <1>4 DEF HandleEvent

\* The link is made or lost.
LEMMA LinkStep ==
    ASSUME IInv, LinkUp \/ LinkDown
    PROVE  IInv'
  <1> USE DEF IInv, flash, app, task, callers
  <1>1. PICK e \in LinkEvs :
            /\ queue' = queue \o <<e>> /\ queue \in Seq(Events)
            /\ e \in Events /\ e \in LinkTold' /\ e \notin ApEvs
    <2>1. queue \in Seq(Events)
      BY DEF TypeOK
    <2>2. CASE LinkUp
      <3> "STA_CONNECTED" \in LinkEvs
        BY DEF LinkEvs
      <3> WITNESS "STA_CONNECTED" \in LinkEvs
      <3> QED BY <2>1, <2>2 DEF LinkUp, LinkEvs, LinkTold, ApEvs, Events
    <2>3. CASE LinkDown
      <3>1. PICK e \in {"DISCONNECTED", "NO_AP_FOUND"} : queue' = Append(queue, e)
        BY <2>3 DEF LinkDown
      <3> e \in LinkEvs
        BY DEF LinkEvs
      <3> WITNESS e \in LinkEvs
      <3> QED BY <2>1, <2>3, <3>1 DEF LinkDown, LinkEvs, LinkTold, ApEvs, Events
    <2> QED BY <2>2, <2>3
  <1>2. /\ UNCHANGED <<mode, auto, apNamed, started, bits, retry, epc, ev, up, pc, op, got, calls>>
        /\ link # "idle" /\ link' \in {"idle", "connected"}
    BY DEF LinkUp, LinkDown
  <1>3. /\ queue' \in Seq(Events)
        /\ LastIn(queue', LinkEvs, LinkTold') /\ ~NoneOf(queue', LinkEvs)
    BY <1>1, Loud
  <1>4. ApTold' = ApTold /\ (ApUp' <=> ApUp)
    BY <1>2 DEF ApTold, ApUp
  <1>5. LastIn(queue', ApEvs, ApTold') /\ (NoneOf(queue', ApEvs) => NoneOf(queue, ApEvs))
    <2>1. <<e>> \in Seq(Events) /\ NoneOf(<<e>>, ApEvs)
      BY <1>1 DEF NoneOf
    <2>2. LastIn(queue, ApEvs, ApTold')
      BY <1>4 DEF ApInv
    <2> QED BY <1>1, <2>1, <2>2, Quiet
  <1>6. TypeOK'
    BY <1>2, <1>3 DEF TypeOK
  <1>7. LinkNeedsSta'
    BY <1>2 DEF LinkNeedsSta, StaUp
  <1>8. LinkInv'
    BY <1>3 DEF LinkInv
  <1>9. ApInv'
    BY <1>2, <1>4, <1>5 DEF ApInv
  <1> QED BY <1>6, <1>7, <1>8, <1>9

-----------------------------------------------------------------------------
(* The steps of app_main and of the callers.                                *)

LEMMA BootStep ==
    ASSUME IInv, Boot
    PROVE  IInv'
  <1> USE DEF IInv, flash, driver, app, task, callers
  <1>1. UNCHANGED <<apNamed, retry, epc, ev, pc, op, got, calls>> /\ up' \in {"yes", "failed"}
    BY DEF Boot, WifiStart, WifiStartFails
  <1>2. auto' \in BOOLEAN
    <2>1. AutoAtBoot => auto' \in BOOLEAN
      BY DEF AutoAtBoot, TypeOK
    <2>2. AutoAtBoot \/ auto' = auto
      BY DEF Boot, WifiStart, WifiStartFails
    <2> QED BY <2>1, <2>2 DEF TypeOK
  <1>3. bits' = bits \/ bits' = bits \union {"wifi_error"}
    BY DEF Boot, WifiStart, WifiStartFails
  <1>4. CASE UNCHANGED <<mode, started, link, queue>>
    <2>1. LinkNeedsSta'
      BY <1>4 DEF LinkNeedsSta, StaUp
    <2>2. LinkInv' /\ ApInv'
      BY <1>1, <1>3, <1>4, Unmoved
    <2>3. TypeOK'
      BY <1>1, <1>2, <1>3, <1>4 DEF TypeOK, Bits
    <2> QED BY <2>1, <2>2, <2>3
  <1>5. CASE Reconfigure(mode, TRUE) /\ bits' = bits
    <2>1. mode \in SUBSET Ifaces
      BY DEF TypeOK
    <2>2. /\ mode' \subseteq Ifaces /\ started' \in BOOLEAN
          /\ link' \in {"idle", "connecting", "connected"} /\ queue' \in Seq(Events)
          /\ LinkNeedsSta' /\ LinkInv' /\ ApInv'
      BY <1>1, <1>5, <2>1, Moved
    <2>3. TypeOK'
      BY <1>1, <1>2, <1>5, <2>2 DEF TypeOK
    <2> QED BY <2>2, <2>3
  <1> QED BY <1>4, <1>5 DEF Boot, WifiStart, WifiStartFails

\* Where a caller goes next.
CallerType ==
    /\ pc \in [Callers -> CPc]
    /\ op \in [Callers -> Actions \union {"none", "join"}]

LEMMA Returning ==
    ASSUME TypeOK, NEW t \in Callers, Return(t) \/ Disconnected(t)
    PROVE  CallerType'
  BY DEF TypeOK, CallerType, Return, Disconnected, CPc

LEMMA ModeDone ==
    ASSUME TypeOK, NEW t \in Callers, ModeSet(t)
    PROVE  CallerType'
  BY DEF TypeOK, CallerType, ModeSet, Return, CPc

\* Steps that read the mode, or the bits, or clear one that an action waits
\* for, or set that of an attempt.
Bookkeeping(t) ==
    \/ CheckAp(t) \/ CheckSta(t) \/ ClearConnecting(t) \/ AutoOff(t) \/ GetMode(t)
    \/ AutoOn(t) \/ (SetConfig(t) /\ ~Restart) \/ NoApConfig(t) \/ UseSaved(t) \/ WaitDone(t) \/ WaitTimeout(t)
    \/ MarkConnecting(t) \/ ConnectAnyway(t) \/ Answer(t) \/ \E o \in Ops : Call(t, o)

LEMMA BookkeepingStep ==
    ASSUME IInv, NEW t \in Callers, Bookkeeping(t)
    PROVE  IInv'
  <1> USE DEF IInv, flash, driver, app, task, callers
  <1> TypeOK /\ LinkNeedsSta /\ LinkInv /\ ApInv
    OBVIOUS
  <1>1. /\ UNCHANGED <<mode, started, queue, epc, ev, up, retry>>
        /\ link' = link \/ (link = "idle" /\ link' = "connecting" /\ StaUp)
    BY DEF Bookkeeping, CheckAp, CheckSta, ClearConnecting, AutoOff, GetMode, AutoOn, SetConfig,
           NoApConfig, UseSaved, WaitDone, WaitTimeout, MarkConnecting, ConnectAnyway, DriverConnect, Answer, Call
  <1>2. bits' = bits \/ bits' = bits \ {"sta_connecting"} \/ bits' = bits \ {"ap_started"}
        \/ bits' = bits \union {"sta_connecting"}
    BY DEF Bookkeeping, CheckAp, CheckSta, ClearConnecting, AutoOff, GetMode, AutoOn, SetConfig,
           NoApConfig, UseSaved, WaitDone, Awaited, WaitTimeout, MarkConnecting, ConnectAnyway, Answer, Call
  <1>3. auto' \in BOOLEAN /\ apNamed' \in BOOLEAN
    BY DEF TypeOK, Bookkeeping, CheckAp, CheckSta, ClearConnecting, AutoOff, GetMode, AutoOn,
           SetConfig, NoApConfig, UseSaved, WaitDone, WaitTimeout, MarkConnecting, ConnectAnyway, Answer, Call
  <1>4. got' \in [Callers -> SUBSET Ifaces] /\ calls' \in 0..MaxCalls
    <2>1. CASE \E o \in Ops : Call(t, o)
      BY <2>1, Assumptions DEF TypeOK, Call
    <2>2. CASE GetMode(t)
      BY <2>2 DEF TypeOK, GetMode
    <2>3. CASE ~GetMode(t) /\ ~ \E o \in Ops : Call(t, o)
      BY <2>3 DEF TypeOK, Bookkeeping, CheckAp, CheckSta, ClearConnecting, AutoOff, AutoOn,
             SetConfig, NoApConfig, UseSaved, WaitDone, WaitTimeout, MarkConnecting, ConnectAnyway, Answer
    <2> QED BY <2>1, <2>2, <2>3
  <1>5. CallerType'
    <2>1. CASE Answer(t) \/ NoApConfig(t)
      BY <2>1, Returning DEF Answer, NoApConfig
    <2>2. CASE CheckAp(t) \/ CheckSta(t) \/ ClearConnecting(t) \/ WaitTimeout(t)
      <3>1. CASE Return(t) \/ Disconnected(t)
        BY <3>1, Returning
      <3>2. CASE ~Return(t) /\ ~Disconnected(t)
        BY <2>2, <3>2 DEF CallerType, TypeOK, CheckAp, CheckSta, ClearConnecting, WaitTimeout, Goto, CPc
      <3> QED BY <3>1, <3>2
    <2>3. CASE AutoOff(t) \/ GetMode(t) \/ AutoOn(t) \/ UseSaved(t) \/ WaitDone(t)
               \/ MarkConnecting(t) \/ ConnectAnyway(t)
      BY <2>3 DEF CallerType, TypeOK, AutoOff, GetMode, AutoOn, UseSaved, WaitDone,
                  MarkConnecting, ConnectAnyway, Goto, CPc
    <2>4. CASE SetConfig(t) /\ ~Restart
      BY <2>4 DEF CallerType, TypeOK, SetConfig, Goto, CPc
    <2>5. CASE \E o \in Ops : Call(t, o)
      BY <2>5, Assumptions DEF CallerType, TypeOK, Call, Goto, CPc
    <2> QED BY <2>1, <2>2, <2>3, <2>4, <2>5 DEF Bookkeeping
  <1>6. TypeOK'
    BY <1>1, <1>2, <1>3, <1>4, <1>5 DEF TypeOK, CallerType, Bits
  <1>7. LinkNeedsSta'
    BY <1>1 DEF LinkNeedsSta, StaUp
  <1>8. LinkInv' /\ ApInv'
    <2>1. /\ link' = "connected" <=> link = "connected"
          /\ "sta_connected" \in bits' <=> "sta_connected" \in bits
          /\ "ap_started" \in bits' => "ap_started" \in bits
      BY <1>1, <1>2
    <2> QED BY <1>1, <2>1, Unmoved
  <1> QED BY <1>6, <1>7, <1>8

\* Steps that change the interfaces, or leave them as they are.
Configuring(t) ==
    \/ SetMode(t) \/ StartDriver(t) \/ UnsetMode(t) \/ StopDriver(t)
    \/ GetModeFails(t) \/ StartFails(t)

LEMMA ConfiguringStep ==
    ASSUME IInv, NEW t \in Callers, Configuring(t)
    PROVE  IInv'
  <1> USE DEF IInv, flash, driver, app, task, callers
  <1> TypeOK /\ LinkNeedsSta /\ LinkInv /\ ApInv
    OBVIOUS
  <1>1. UNCHANGED <<auto, apNamed, bits, retry, epc, ev, up, got, calls>>
    BY DEF Configuring, SetMode, StartDriver, UnsetMode, StopDriver, GetModeFails, StartFails
  <1>2. CallerType'
    <2>1. CASE ModeSet(t)
      BY <2>1, ModeDone
    <2>2. CASE Disconnected(t)
      BY <2>2, Returning
    <2>3. CASE ~ModeSet(t) /\ ~Disconnected(t)
      BY <2>3 DEF CallerType, TypeOK, Configuring, SetMode, StartDriver, UnsetMode, StopDriver, GetModeFails, StartFails, Goto, CPc
    <2> QED BY <2>1, <2>2, <2>3
  <1>3. CASE UNCHANGED <<mode, started, link, queue>>
    <2>1. TypeOK'
      BY <1>1, <1>2, <1>3 DEF TypeOK, CallerType
    <2>2. LinkNeedsSta'
      BY <1>3 DEF LinkNeedsSta, StaUp
    <2>3. LinkInv' /\ ApInv'
      BY <1>1, <1>3, Unmoved
    <2> QED BY <2>1, <2>2, <2>3
  <1>4. CASE \E md \in SUBSET Ifaces, s \in BOOLEAN : Reconfigure(md, s)
    <2>1. /\ mode' \subseteq Ifaces /\ started' \in BOOLEAN
          /\ link' \in {"idle", "connecting", "connected"} /\ queue' \in Seq(Events)
          /\ LinkNeedsSta' /\ LinkInv' /\ ApInv'
      BY <1>1, <1>4, Moved
    <2>2. TypeOK'
      BY <1>1, <1>2, <2>1 DEF TypeOK, CallerType
    <2> QED BY <2>1, <2>2
  <1>5. \/ UNCHANGED <<mode, started, link, queue>>
        \/ \E md \in SUBSET Ifaces, s \in BOOLEAN : Reconfigure(md, s)
    <2>1. mode \in SUBSET Ifaces /\ started \in BOOLEAN /\ Target(t) \in Ifaces
      BY DEF TypeOK, Target, Ifaces
    <2> QED BY <2>1 DEF Configuring, SetMode, StartDriver, UnsetMode, StopDriver, GetModeFails, StartFails
  <1> QED BY <1>3, <1>4, <1>5

-----------------------------------------------------------------------------
(* The theorems.                                                            *)

\* At every moment the last event posted about the link, and about the AP,
\* tells their state, and the bits do once no such event is left.
THEOREM BitsTrack == Spec => []IInv
  <1>1. Init => IInv
    <2> SUFFICES ASSUME Init PROVE IInv
      OBVIOUS
    <2>1. TypeOK
      <3>1. queue \in Seq(Events) /\ bits \subseteq Bits
        BY DEF Init
      <3>2. retry \in 0..MaxRetry /\ calls \in 0..MaxCalls
        BY Assumptions DEF Init
      <3>3. /\ pc \in [Callers -> CPc] /\ op \in [Callers -> Actions \union {"none", "join"}]
            /\ got \in [Callers -> SUBSET Ifaces]
        BY DEF Init, CPc
      <3>4. epc \in EPc /\ ev \in Events \union {"none"}
        BY DEF Init, EPc
      <3> QED BY <3>1, <3>2, <3>3, <3>4 DEF TypeOK, Init
    <2>2. LastIn(queue, LinkEvs, LinkTold) /\ LastIn(queue, ApEvs, ApTold)
      BY DEF Init, LastIn
    <2>3. LinkNeedsSta /\ LinkInv /\ ApInv
      BY <2>2 DEF Init, LinkNeedsSta, LinkInv, ApInv
    <2> QED BY <2>1, <2>3 DEF IInv
  <1>2. IInv /\ [Next]_vars => IInv'
    <2> SUFFICES ASSUME IInv, [Next]_vars PROVE IInv'
      OBVIOUS
    <2>1. CASE HandleEvent
      BY <2>1, EventStep
    <2>2. CASE Boot
      BY <2>2, BootStep
    <2>3. CASE LinkUp \/ LinkDown
      BY <2>3, LinkStep
    <2>4. CASE Restart
      BY <2>4, Restarted DEF IInv
    <2>5. ASSUME NEW t \in Callers, Step(t) \/ \E o \in Ops : Call(t, o), ~Restart
          PROVE  IInv'
      <3>1. Bookkeeping(t) \/ Configuring(t)
        BY <2>5 DEF Step, Bookkeeping, Configuring
      <3> QED BY <3>1, BookkeepingStep, ConfiguringStep
    <2>6. CASE UNCHANGED vars
      <3>1. /\ UNCHANGED <<mode, auto, apNamed, started, link, queue, bits, retry>>
            /\ UNCHANGED <<epc, ev, up, pc, op, got, calls>>
        BY <2>6 DEF vars, flash, driver, app, task, callers
      <3>2. TypeOK'
        BY <3>1 DEF IInv, TypeOK
      <3>3. LinkNeedsSta'
        BY <3>1 DEF IInv, LinkNeedsSta, StaUp
      <3>4. LinkInv' /\ ApInv'
        BY <3>1, Unmoved DEF IInv
      <3> QED BY <3>2, <3>3, <3>4 DEF IInv
    <2> QED BY <2>1, <2>2, <2>3, <2>4, <2>5, <2>6 DEF Next, PowerLoss
  <1> QED BY <1>1, <1>2, PTL DEF Spec

\* Every variable keeps its type: the retries stay within
\* CONFIG_APP_WIFI_MAX_RETRY.
THEOREM TypeCorrect == Spec => []TypeOK
  <1>1. IInv => TypeOK
    BY DEF IInv
  <1> QED BY <1>1, BitsTrack, PTL

\* STATE_STA_CONNECTED is right whenever the events are handled, for any
\* number of clients and of actions at once.
THEOREM ConnectedIsTrue == Spec => []ConnectedFollows
  <1>1. IInv => ConnectedFollows
    BY DEF IInv, LinkInv, ConnectedFollows, Settled, NoneOf
  <1> QED BY <1>1, BitsTrack, PTL

\* STATE_AP_STARTED never outlives its AP.
THEOREM StartedNeedsAp == Spec => []StartedIsSound
  <1>1. IInv => StartedIsSound
    BY DEF IInv, ApInv, StartedIsSound, Settled, NoneOf
  <1> QED BY <1>1, BitsTrack, PTL

-----------------------------------------------------------------------------
(* What app_wifi_connect leaves behind when one action runs at a time.      *)
(*                                                                          *)
(* It waits for a bit that the event task sets before it connects.  The bit *)
(* belongs to an attempt as long as the station is on (BitInv); once it is  *)
(* off, an event that clears the bit is on its way (StaInv), since the last *)
(* event posted about the station tells whether it is on.                   *)

\* The events that tell whether the station is on, and those after which no
\* attempt is under way.
StaEvs  == {"STA_START", "STA_STOP", "DISCONNECTED", "NO_AP_FOUND"}
EndEvs  == {"STA_STOP", "DISCONNECTED", "NO_AP_FOUND"}
OnEvs   == {"STA_START", "DISCONNECTED", "NO_AP_FOUND"}
StaTold == IF StaUp THEN OnEvs ELSE {"STA_STOP"}
StaPast == IF StaUp THEN {"STA_STOP"} ELSE OnEvs

\* Whatever is of B in q has something of G behind it.
Followed(q, B, G) ==
    \A i \in 1..Len(q) : q[i] \in B => \E j \in 1..Len(q) : i < j /\ q[j] \in G

\* The event task has an event of K in hand, or will have.
InHand(K)  == epc = "handle" /\ ev \in K
Pending(K) == ~NoneOf(queue, K) \/ InHand(K)
Trying     == epc \in {"start", "sleep", "retry", "connect"}

\* An action is called when the last one has returned.
OneAtATime == \A t, u \in Callers : pc[t] # "idle" /\ pc[u] # "idle" => t = u

\* The station connects as soon as it is on, and no caller is about to keep
\* it from that.
Meant == auto /\ \A t \in Callers : pc[t] # "auto_off"

StaInv ==
    /\ Followed(queue, StaPast, StaTold)
    /\ InHand(StaPast) => ~NoneOf(queue, StaTold)
    /\ epc \in {"start", "sleep", "retry"} /\ ~StaUp => ~NoneOf(queue, {"STA_STOP"})
    /\ "sta_connecting" \in bits /\ ~StaUp => Pending({"STA_STOP"}) \/ Meant

\* The bit is that of an attempt, or the event that ended it is to be handled,
\* or the event that begins one.
BitInv ==
    "sta_connecting" \in bits /\ StaUp /\ link = "idle" /\ (\A t \in Callers : pc[t] # "call") =>
        Trying \/ Pending(EndEvs) \/ (Meant /\ Pending({"STA_START"}))

\* app_wifi_connect has returned.
TriedInv ==
    \A t \in Callers : pc[t] = "answer" /\ Joins(t) /\ StaUp /\ auto /\ link = "idle" =>
        Trying \/ Pending(StaEvs)

\* What an action that runs alone knows of the driver: app_wifi_connect has
\* set its auto-connect, whether or not the station could be turned on.
Knows(t) ==
    /\ pc[t] \in {"config", "wait", "force", "call"} /\ Joins(t) => auto
    /\ pc[t] \in {"force", "call"} => Joins(t)

\* Before app_wifi_start has returned, and for ever when it failed.
Quieted ==
    /\ ~started /\ queue = <<>> /\ epc = "idle" /\ "sta_connecting" \notin bits
    /\ \A t \in Callers : pc[t] = "idle"

CallerInv ==
    /\ up # "yes" => Quieted
    /\ \A t \in Callers : Knows(t)

SerialInv == StaInv /\ BitInv /\ TriedInv /\ CallerInv

LEMMA NoneOfBoth ==
    ASSUME NEW q \in Seq(Events), NEW t \in Seq(Events), NEW K
    PROVE  NoneOf(q \o t, K) <=> NoneOf(q, K) /\ NoneOf(t, K)
  <1>1. /\ Len(q \o t) = Len(q) + Len(t) /\ Len(q) \in Nat /\ Len(t) \in Nat
        /\ \A i \in 1..Len(q) : i \in 1..Len(q \o t) /\ (q \o t)[i] = q[i]
        /\ \A i \in 1..Len(t) : i + Len(q) \in 1..Len(q \o t) /\ (q \o t)[i + Len(q)] = t[i]
        /\ \A i \in 1..Len(q \o t) : i \in 1..Len(q) \/ i - Len(q) \in 1..Len(t)
    OBVIOUS
  <1>2. \A i \in 1..Len(q \o t) : (q \o t)[i] = IF i \in 1..Len(q) THEN q[i] ELSE t[i - Len(q)]
    BY <1>1
  <1> QED BY <1>1, <1>2 DEF NoneOf

LEMMA FollowedQuiet ==
    ASSUME NEW q \in Seq(Events), NEW t \in Seq(Events), NEW B, NEW G, Followed(q, B, G), NoneOf(t, B)
    PROVE  Followed(q \o t, B, G)
  <1>1. /\ Len(q \o t) = Len(q) + Len(t) /\ Len(q) \in Nat /\ Len(t) \in Nat
        /\ \A i \in 1..Len(q) : i \in 1..Len(q \o t) /\ (q \o t)[i] = q[i]
        /\ \A i \in 1..Len(q \o t) : i \in 1..Len(q) \/ (q \o t)[i] \notin B
    BY DEF NoneOf
  <1> QED BY <1>1 DEF Followed

LEMMA FollowedLoud ==
    ASSUME NEW q \in Seq(Events), NEW e \in Events, NEW B, NEW G, e \in G, e \notin B
    PROVE  q \o <<e>> \in Seq(Events) /\ Followed(q \o <<e>>, B, G) /\ ~NoneOf(q \o <<e>>, {e})
  <1>1. /\ q \o <<e>> \in Seq(Events) /\ Len(q \o <<e>>) = Len(q) + 1 /\ Len(q) \in Nat
        /\ (q \o <<e>>)[Len(q) + 1] = e /\ Len(q) + 1 \in 1..Len(q \o <<e>>)
    OBVIOUS
  <1>2. \A i \in 1..Len(q \o <<e>>) : i < Len(q) + 1 \/ i = Len(q) + 1
    BY <1>1
  <1> QED BY <1>1, <1>2 DEF Followed, NoneOf

LEMMA FollowedFirst ==
    ASSUME NEW q \in Seq(Events), q # <<>>, NEW B, NEW G, Followed(q, B, G), NEW K
    PROVE  /\ Followed(Tail(q), B, G)
           /\ Head(q) \in B => ~NoneOf(Tail(q), G)
           /\ NoneOf(q, K) <=> Head(q) \notin K /\ NoneOf(Tail(q), K)
  <1>1. /\ Head(q) = q[1] /\ Len(q) \in Nat /\ Len(q) >= 1 /\ Len(Tail(q)) = Len(q) - 1
        /\ \A i \in 1..Len(Tail(q)) : i + 1 \in 1..Len(q) /\ Tail(q)[i] = q[i + 1] /\ i \in Nat
    OBVIOUS
  <1>2. \A i \in 1..Len(q) : i = 1 \/ (i - 1 \in 1..Len(Tail(q)) /\ q[i] = Tail(q)[i - 1])
    BY <1>1
  <1>3. Followed(Tail(q), B, G)
    <2> SUFFICES ASSUME NEW i \in 1..Len(Tail(q)), Tail(q)[i] \in B
                 PROVE  \E j \in 1..Len(Tail(q)) : i < j /\ Tail(q)[j] \in G
      BY DEF Followed
    <2>1. PICK j \in 1..Len(q) : i + 1 < j /\ q[j] \in G
      BY <1>1 DEF Followed
    <2>2. j - 1 \in 1..Len(Tail(q)) /\ q[j] = Tail(q)[j - 1] /\ i < j - 1
      BY <1>1, <1>2, <2>1
    <2> QED BY <2>1, <2>2
  <1>4. ASSUME Head(q) \in B PROVE ~NoneOf(Tail(q), G)
    <2>1. PICK j \in 1..Len(q) : 1 < j /\ q[j] \in G
      BY <1>1, <1>4 DEF Followed
    <2>2. j - 1 \in 1..Len(Tail(q)) /\ Tail(q)[j - 1] \in G
      BY <1>2, <2>1
    <2> QED BY <2>2 DEF NoneOf
  <1>5. NoneOf(q, K) <=> Head(q) \notin K /\ NoneOf(Tail(q), K)
    BY <1>1, <1>2, SMTT(30) DEF NoneOf
  <1> QED BY <1>3, <1>4, <1>5

\* A change of the interfaces posts whether the station is on.
LEMMA ReconfigurePosts ==
    ASSUME TypeOK, LinkNeedsSta, Followed(queue, StaPast, StaTold),
           NEW md \in SUBSET Ifaces, NEW s \in BOOLEAN, Reconfigure(md, s)
    PROVE  /\ mode' = md /\ started' = s
           /\ Followed(queue', StaPast', StaTold')
           /\ StaUp /\ ~StaUp' => ~NoneOf(queue', {"STA_STOP"})
           /\ ~StaUp /\ StaUp' => ~NoneOf(queue', {"STA_START"}) /\ link' = "idle"
           /\ StaUp /\ StaUp' => link' = link
           /\ \A K \in SUBSET Events : NoneOf(queue', K) => NoneOf(queue, K)
  <1> DEFINE was == IF started THEN mode ELSE {}
             now == IF s THEN md ELSE {}
             staOff == EventIf("sta", was \ now, "STA_STOP")
             apOff  == EventIf("ap", was \ now, "AP_STOP")
             staOn  == EventIf("sta", now \ was, "STA_START")
             apOn   == EventIf("ap", now \ was, "AP_START")
  <1>1. /\ mode' = md /\ started' = s
        /\ link' = IF "sta" \in now THEN link ELSE "idle"
    BY DEF Reconfigure
  <1>2. PICK left \in (IF "sta" \in was \ now THEN Leaving ELSE {<<>>}) :
            queue' = queue \o left \o staOff \o apOff \o staOn \o apOn
    BY DEF Reconfigure
  <1>3. (StaUp <=> "sta" \in was) /\ (StaUp' <=> "sta" \in now)
    BY <1>1 DEF StaUp
  <1>4. left = <<>> \/ left = <<"ASSOC_LEAVE">>
    BY <1>2 DEF Leaving
  <1>5. /\ {"ASSOC_LEAVE", "STA_STOP", "AP_STOP", "STA_START", "AP_START"} \subseteq Events
        /\ "ASSOC_LEAVE" \notin StaEvs /\ "AP_STOP" \notin StaEvs /\ "AP_START" \notin StaEvs
    BY DEF Events, StaEvs
  <1>6. /\ left \in Seq(Events) /\ NoneOf(left, StaEvs)
        /\ staOff \in Seq(Events) /\ apOff \in Seq(Events) /\ NoneOf(apOff, StaEvs)
        /\ staOn \in Seq(Events) /\ apOn \in Seq(Events) /\ NoneOf(apOn, StaEvs)
        /\ "sta" \notin was \ now => NoneOf(staOff, StaEvs)
        /\ "sta" \notin now \ was => NoneOf(staOn, StaEvs)
        /\ "sta" \in was \ now => staOff = <<"STA_STOP">>
        /\ "sta" \in now \ was => staOn = <<"STA_START">>
    <2>1. left \in Seq(Events) /\ NoneOf(left, StaEvs)
      <3>1. <<>> \in Seq(Events) /\ NoneOf(<<>>, StaEvs)
        BY DEF NoneOf
      <3>2. <<"ASSOC_LEAVE">> \in Seq(Events) /\ NoneOf(<<"ASSOC_LEAVE">>, StaEvs)
        BY <1>5 DEF NoneOf
      <3> QED BY <1>4, <3>1, <3>2
    <2>2. /\ staOff \in Seq(Events) /\ ("sta" \notin was \ now => NoneOf(staOff, StaEvs))
          /\ "sta" \in was \ now => staOff = <<"STA_STOP">>
      BY <1>5, Unit
    <2>3. /\ staOn \in Seq(Events) /\ ("sta" \notin now \ was => NoneOf(staOn, StaEvs))
          /\ "sta" \in now \ was => staOn = <<"STA_START">>
      BY <1>5, Unit
    <2>4. apOff \in Seq(Events) /\ NoneOf(apOff, StaEvs)
      BY <1>5, Unit
    <2>5. apOn \in Seq(Events) /\ NoneOf(apOn, StaEvs)
      BY <1>5, Unit
    <2> QED BY <2>1, <2>2, <2>3, <2>4, <2>5
  <1> DEFINE q1 == queue \o left
             q2 == q1 \o staOff
             q3 == q2 \o apOff
             q4 == q3 \o staOn
             q5 == q4 \o apOn
  <1>7. /\ queue \in Seq(Events) /\ queue' = q5
        /\ q1 = queue \o left /\ q2 = q1 \o staOff /\ q3 = q2 \o apOff /\ q4 = q3 \o staOn /\ q5 = q4 \o apOn
    BY <1>2 DEF TypeOK
  <1> HIDE DEF q1, q2, q3, q4, q5, staOff, apOff, staOn, apOn, was, now
  <1>8. q1 \in Seq(Events) /\ q2 \in Seq(Events) /\ q3 \in Seq(Events) /\ q4 \in Seq(Events) /\ q5 \in Seq(Events)
    BY <1>6, <1>7
  <1>9. ASSUME NEW K
        PROVE  /\ NoneOf(queue', K) => NoneOf(queue, K) /\ NoneOf(q2, K) /\ NoneOf(q4, K)
               /\ NoneOf(q2, K) => NoneOf(staOff, K)
               /\ NoneOf(q4, K) => NoneOf(staOn, K)
    <2>1. NoneOf(q5, K) => NoneOf(q4, K)
      BY <1>6, <1>7, <1>8, NoneOfBoth
    <2>2. NoneOf(q4, K) => NoneOf(q3, K) /\ NoneOf(staOn, K)
      BY <1>6, <1>7, <1>8, NoneOfBoth
    <2>3. NoneOf(q3, K) => NoneOf(q2, K)
      BY <1>6, <1>7, <1>8, NoneOfBoth
    <2>4. NoneOf(q2, K) => NoneOf(q1, K) /\ NoneOf(staOff, K)
      BY <1>6, <1>7, <1>8, NoneOfBoth
    <2>5. NoneOf(q1, K) => NoneOf(queue, K)
      BY <1>6, <1>7, <1>8, NoneOfBoth
    <2> QED BY <1>7, <2>1, <2>2, <2>3, <2>4, <2>5
  <1>10. ASSUME NEW B, B \subseteq StaEvs
         PROVE  NoneOf(left, B) /\ NoneOf(apOff, B) /\ NoneOf(apOn, B)
                /\ ("sta" \notin was \ now => NoneOf(staOff, B))
                /\ ("sta" \notin now \ was => NoneOf(staOn, B))
    BY <1>6, <1>10 DEF NoneOf
  <1>11. StaPast \subseteq StaEvs /\ StaPast' \subseteq StaEvs
    BY DEF StaPast, StaEvs, OnEvs
  <1>12. CASE "sta" \in was /\ "sta" \notin now
    <2>1. /\ staOff = <<"STA_STOP">> /\ "STA_STOP" \in StaTold' /\ "STA_STOP" \notin StaPast'
          /\ "STA_STOP" \in Events
      BY <1>3, <1>5, <1>6, <1>12 DEF StaTold, StaPast, OnEvs
    <2>2. Followed(q2, StaPast', StaTold') /\ ~NoneOf(q2, {"STA_STOP"})
      BY <1>7, <1>8, <2>1, FollowedLoud
    <2>3. Followed(q3, StaPast', StaTold')
      BY <1>6, <1>7, <1>8, <1>10, <1>11, <2>2, FollowedQuiet
    <2>4. Followed(q4, StaPast', StaTold')
      BY <1>6, <1>7, <1>8, <1>10, <1>11, <1>12, <2>3, FollowedQuiet
    <2>5. Followed(q5, StaPast', StaTold')
      BY <1>6, <1>7, <1>8, <1>10, <1>11, <2>4, FollowedQuiet
    <2>6. ~NoneOf(queue', {"STA_STOP"})
      BY <1>9, <2>2
    <2> QED BY <1>1, <1>3, <1>7, <1>9, <1>12, <2>5, <2>6
  <1>13. CASE "sta" \notin was /\ "sta" \in now
    <2>1. /\ staOn = <<"STA_START">> /\ "STA_START" \in StaTold' /\ "STA_START" \notin StaPast'
          /\ "STA_START" \in Events
      BY <1>3, <1>5, <1>6, <1>13 DEF StaTold, StaPast, OnEvs
    <2>2. Followed(q4, StaPast', StaTold') /\ ~NoneOf(q4, {"STA_START"})
      BY <1>7, <1>8, <2>1, FollowedLoud
    <2>3. Followed(q5, StaPast', StaTold')
      BY <1>6, <1>7, <1>8, <1>10, <1>11, <2>2, FollowedQuiet
    <2>4. link' = "idle"
      BY <1>1, <1>3, <1>13 DEF LinkNeedsSta
    <2> QED BY <1>1, <1>3, <1>7, <1>9, <1>13, <2>2, <2>3, <2>4
  <1>14. CASE "sta" \in was <=> "sta" \in now
    <2>1. StaTold' = StaTold /\ StaPast' = StaPast
      BY <1>3, <1>14 DEF StaTold, StaPast
    <2>2. Followed(q1, StaPast, StaTold)
      BY <1>6, <1>7, <1>10, <1>11, FollowedQuiet
    <2>3. Followed(q2, StaPast, StaTold)
      BY <1>6, <1>7, <1>8, <1>10, <1>11, <1>14, <2>2, FollowedQuiet
    <2>4. Followed(q3, StaPast, StaTold)
      BY <1>6, <1>7, <1>8, <1>10, <1>11, <2>3, FollowedQuiet
    <2>5. Followed(q4, StaPast, StaTold)
      BY <1>6, <1>7, <1>8, <1>10, <1>11, <1>14, <2>4, FollowedQuiet
    <2>6. Followed(q5, StaPast, StaTold)
      BY <1>6, <1>7, <1>8, <1>10, <1>11, <2>5, FollowedQuiet
    <2>7. StaUp /\ StaUp' => link' = link
      BY <1>1, <1>3
    <2> QED BY <1>1, <1>3, <1>7, <1>9, <1>14, <2>1, <2>6, <2>7
  <1> QED BY <1>12, <1>13, <1>14

\* While one action runs, every other caller is idle.
LEMMA Others ==
    ASSUME TypeOK, OneAtATime, OneAtATime', NEW t \in Callers,
           Step(t) \/ (\E o \in Ops : Call(t, o)), ~Restart
    PROVE  \A u \in Callers : u # t => pc[u] = "idle" /\ pc'[u] = "idle"
  <1> SUFFICES ASSUME NEW u \in Callers, u # t PROVE pc[u] = "idle" /\ pc'[u] = "idle"
    OBVIOUS
  <1>1. pc'[u] = pc[u]
    BY DEF TypeOK, Step, Call, CheckAp, CheckSta, ClearConnecting, AutoOff, GetMode, SetMode, StartDriver,
           UnsetMode, StopDriver, GetModeFails, StartFails, AutoOn, SetConfig, NoApConfig, UseSaved, WaitDone, WaitTimeout, MarkConnecting,
           ConnectAnyway, Answer, Goto, Disconnected, Return, ModeSet
  <1>2. CASE Step(t)
    <2>1. pc[t] # "idle"
      BY <1>2 DEF Step, CheckAp, CheckSta, ClearConnecting, AutoOff, GetMode, SetMode, StartDriver,
           UnsetMode, StopDriver, GetModeFails, StartFails, AutoOn, SetConfig, NoApConfig, UseSaved, WaitDone, WaitTimeout, MarkConnecting,
           ConnectAnyway, Answer, Goto
    <2> QED BY <1>1, <2>1 DEF OneAtATime
  <1>3. CASE \E o \in Ops : Call(t, o)
    <2>1. pc'[t] # "idle"
      BY <1>3 DEF TypeOK, Call, Goto
    <2> QED BY <1>1, <2>1 DEF OneAtATime
  <1> QED BY <1>2, <1>3

\* Where the steps of a caller end that neither change the interfaces nor
\* read the mode.
LEMMA Lands ==
    ASSUME TypeOK, NEW t \in Callers
    PROVE  /\ CheckAp(t) \/ CheckSta(t) \/ ClearConnecting(t) \/ AutoOff(t) \/ Answer(t)
              \/ (\E o \in Ops : Call(t, o)) =>
                  pc'[t] \in {"idle", "check", "clear", "auto_off", "get"}
                  /\ pc[t] \in {"idle", "check", "clear", "auto_off", "answer"}
           /\ WaitDone(t) => pc[t] = "wait" /\ pc'[t] = "answer" /\ op' = op
           /\ ConnectAnyway(t) => pc[t] = "call" /\ pc'[t] = "answer" /\ op' = op
           /\ GetMode(t) => pc[t] = "get" /\ pc'[t] = "mode" /\ got'[t] = mode
           /\ AutoOn(t) => pc[t] = "auto_on" /\ pc'[t] = "config" /\ op' = op
           /\ (SetConfig(t) /\ ~Restart) \/ UseSaved(t) => pc[t] = "config" /\ pc'[t] = "wait" /\ op' = op
           /\ NoApConfig(t) => pc[t] = "config" /\ pc'[t] = "idle"
           /\ CheckAp(t) \/ CheckSta(t) \/ ClearConnecting(t) => UNCHANGED auto
           /\ MarkConnecting(t) => pc[t] = "force" /\ pc'[t] = "call" /\ op' = op
           /\ WaitTimeout(t) => /\ pc[t] = "wait"
                                /\ pc'[t] = "idle" \/ (pc'[t] = "force" /\ op' = op /\ Joins(t))
  <1> USE DEF TypeOK, Goto, Return, Disconnected
  <1>1. CheckAp(t) \/ CheckSta(t) \/ ClearConnecting(t) \/ AutoOff(t) \/ Answer(t) =>
            pc'[t] \in {"idle", "check", "clear", "auto_off", "get"}
            /\ pc[t] \in {"idle", "check", "clear", "auto_off", "answer"}
    BY DEF CheckAp, CheckSta, ClearConnecting, AutoOff, Answer
  <1>2. (\E o \in Ops : Call(t, o)) => pc'[t] \in {"check", "get"} /\ pc[t] = "idle"
    BY DEF Call
  <1>3. /\ WaitDone(t) => pc[t] = "wait" /\ pc'[t] = "answer" /\ op' = op
        /\ ConnectAnyway(t) => pc[t] = "call" /\ pc'[t] = "answer" /\ op' = op
        /\ GetMode(t) => pc[t] = "get" /\ pc'[t] = "mode" /\ got'[t] = mode
        /\ AutoOn(t) => pc[t] = "auto_on" /\ pc'[t] = "config" /\ op' = op
    BY DEF WaitDone, ConnectAnyway, GetMode, AutoOn
  <1>4. /\ (SetConfig(t) /\ ~Restart) \/ UseSaved(t) => pc[t] = "config" /\ pc'[t] = "wait" /\ op' = op
        /\ NoApConfig(t) => pc[t] = "config" /\ pc'[t] = "idle"
        /\ MarkConnecting(t) => pc[t] = "force" /\ pc'[t] = "call" /\ op' = op
    BY DEF SetConfig, NoApConfig, UseSaved, MarkConnecting
  <1>5. WaitTimeout(t) => /\ pc[t] = "wait"
                          /\ pc'[t] = "idle" \/ (pc'[t] = "force" /\ op' = op /\ Joins(t))
    BY DEF WaitTimeout
  <1>6. CheckAp(t) \/ CheckSta(t) \/ ClearConnecting(t) => UNCHANGED auto
    BY DEF CheckAp, CheckSta, ClearConnecting, flash
  <1> QED BY <1>1, <1>2, <1>3, <1>4, <1>5, <1>6

\* Where those that change the interfaces end.
LEMMA ModeLands ==
    ASSUME TypeOK, NEW t \in Callers
    PROVE  /\ ModeSet(t) => pc'[t] \in {"idle", "auto_on", "config"}
                            /\ (pc'[t] # "idle" => op' = op) /\ (Joins(t) => pc'[t] = "auto_on")
           /\ Disconnected(t) => pc'[t] \in {"idle", "get"}
  BY DEF TypeOK, ModeSet, Disconnected, Return, Joins

\* Nothing but the event task and the link moves once the driver is started.
LEMMA CallerQuiet ==
    ASSUME TypeOK, LinkNeedsSta, CallerInv, HandleEvent \/ LinkUp \/ LinkDown, ~Restart
    PROVE  CallerInv'
  <1>1. UNCHANGED <<auto, started, up, pc, op>>
    BY DEF HandleEvent, Take, OnApStart, OnApStop, OnStaStart, StartConnecting, OnStaStop,
           OnStaConnected, SetConnected, OnAssocLeave, OnDisconnected, Wake, Retry, Connect,
           DriverConnect, GiveUp, LinkUp, LinkDown, flash, driver, callers
  <1>2. epc # "idle" \/ queue # <<>> \/ link # "idle"
    BY DEF HandleEvent, Take, OnApStart, OnApStop, OnStaStart, StartConnecting, OnStaStop,
           OnStaConnected, SetConnected, OnAssocLeave, OnDisconnected, Wake, Retry, Connect,
           GiveUp, LinkUp, LinkDown, EGoto
  <1>3. up = "yes"
    BY <1>2 DEF CallerInv, Quieted, LinkNeedsSta, StaUp
  <1> QED BY <1>1, <1>3 DEF CallerInv, Knows, Joins

LEMMA CallerBooking ==
    ASSUME TypeOK, CallerInv, NEW t \in Callers, Bookkeeping(t), up = "yes",
           \A u \in Callers : u # t => pc[u] = "idle" /\ pc'[u] = "idle"
    PROVE  CallerInv'
  <1>1. up' = up
    BY DEF Bookkeeping, CheckAp, CheckSta, ClearConnecting, AutoOff, GetMode, AutoOn, SetConfig,
           NoApConfig, UseSaved, WaitDone, WaitTimeout, MarkConnecting, ConnectAnyway, Answer, Call
  <1>2. Knows(t)
    BY DEF CallerInv
  <1>3. op' = op => (Joins(t)' <=> Joins(t))
    BY DEF Joins
  <1>4. Knows(t)'
    <2>1. CASE pc'[t] \in {"idle", "check", "clear", "auto_off", "get", "mode", "answer"}
      BY <2>1 DEF Knows
    <2>2. CASE AutoOn(t)
      <3>1. pc'[t] = "config" /\ auto' = TRUE
        BY <2>2, Lands DEF AutoOn
      <3> QED BY <3>1 DEF Knows
    <2>3. CASE (SetConfig(t) /\ ~Restart) \/ UseSaved(t) \/ MarkConnecting(t)
      <3>1. /\ pc[t] \in {"config", "force"} /\ pc'[t] \in {"wait", "call"} /\ op' = op
            /\ pc'[t] = "call" => pc[t] = "force"
        BY <2>3, Lands
      <3>2. auto' = auto
        BY <2>3 DEF SetConfig, UseSaved, MarkConnecting, flash
      <3> QED BY <1>2, <1>3, <3>1, <3>2 DEF Knows
    <2>4. CASE WaitTimeout(t) /\ pc'[t] = "force"
      <3>1. pc[t] = "wait" /\ op' = op /\ Joins(t) /\ auto' = auto
        BY <2>4, Lands DEF WaitTimeout, flash
      <3> QED BY <1>2, <1>3, <2>4, <3>1 DEF Knows
    <2> QED BY <2>1, <2>2, <2>3, <2>4, Lands DEF Bookkeeping
  <1>5. \A u \in Callers : Knows(u)'
    BY <1>4 DEF Knows
  <1> QED BY <1>1, <1>5 DEF CallerInv

\* A caller comes to its configuration only after the auto-connect.
LEMMA CallerConfiguring ==
    ASSUME TypeOK, CallerInv, NEW t \in Callers, Configuring(t), up = "yes",
           \A u \in Callers : u # t => pc[u] = "idle" /\ pc'[u] = "idle"
    PROVE  /\ CallerInv'
           /\ pc'[t] \in {"idle", "auto_on", "config", "start", "stop", "get"}
  <1>1. up' = up
    BY DEF Configuring, SetMode, StartDriver, UnsetMode, StopDriver, GetModeFails, StartFails
  <1>2. /\ pc'[t] \in {"idle", "auto_on", "config", "start", "stop", "get"}
        /\ pc'[t] = "config" => op' = op /\ ~Joins(t)
    <2>1. CASE ModeSet(t) \/ Disconnected(t)
      BY <2>1, ModeLands
    <2>2. CASE ~ModeSet(t) /\ ~Disconnected(t)
      BY <2>2 DEF Configuring, SetMode, StartDriver, UnsetMode, StopDriver, GetModeFails, StartFails, Goto, TypeOK
    <2> QED BY <2>1, <2>2
  <1>3. Knows(t)'
    BY <1>2 DEF Knows, Joins
  <1>4. \A u \in Callers : Knows(u)'
    BY <1>3 DEF Knows
  <1> QED BY <1>1, <1>2, <1>4 DEF CallerInv

LEMMA Within ==
    ASSUME NEW q, NEW J, NEW K, J \subseteq K, NoneOf(q, K)
    PROVE  NoneOf(q, J)
  BY DEF NoneOf

LEMMA StaSets ==
    /\ StaEvs \in SUBSET Events /\ EndEvs \in SUBSET Events /\ {"STA_STOP"} \in SUBSET Events
    /\ {"STA_START"} \in SUBSET Events /\ {"STA_START"} \subseteq StaEvs
    /\ StaTold \in SUBSET Events /\ EndEvs \subseteq StaEvs /\ StaTold \subseteq StaEvs
    /\ {"STA_STOP"} \subseteq EndEvs
  BY DEF StaEvs, EndEvs, OnEvs, StaTold, Events

-----------------------------------------------------------------------------
(* What each kind of step does to StaInv, BitInv and TriedInv.              *)

\* The interfaces change, in app_main or for a caller.
LEMMA SerialMoved ==
    ASSUME TypeOK, LinkNeedsSta, StaInv, BitInv,
           NEW md \in SUBSET Ifaces, NEW s \in BOOLEAN, Reconfigure(md, s),
           bits' = bits, epc' = epc, ev' = ev, \A t \in Callers : pc[t] # "call",
           Meant => Meant'
    PROVE  StaInv' /\ BitInv'
  <1>1. /\ Followed(queue', StaPast', StaTold')
        /\ StaUp /\ ~StaUp' => ~NoneOf(queue', {"STA_STOP"})
        /\ ~StaUp /\ StaUp' => ~NoneOf(queue', {"STA_START"}) /\ link' = "idle"
        /\ StaUp /\ StaUp' => link' = link
        /\ \A K \in SUBSET Events : NoneOf(queue', K) => NoneOf(queue, K)
    BY ReconfigurePosts DEF StaInv
  <1>2. /\ NoneOf(queue', EndEvs) => NoneOf(queue, EndEvs)
        /\ NoneOf(queue', {"STA_STOP"}) => NoneOf(queue, {"STA_STOP"})
        /\ NoneOf(queue', {"STA_START"}) => NoneOf(queue, {"STA_START"})
        /\ NoneOf(queue', StaTold) => NoneOf(queue, StaTold)
    BY <1>1, StaSets
  <1>3. StaUp' \in BOOLEAN /\ StaUp \in BOOLEAN
    BY DEF StaUp
  <1>4. InHand(StaPast)' => ~NoneOf(queue', StaTold')
    <2>1. CASE StaUp' <=> StaUp
      <3>1. StaPast' = StaPast /\ StaTold' = StaTold
        BY <2>1 DEF StaPast, StaTold
      <3> QED BY <1>2, <3>1 DEF StaInv, InHand
    <2>2. CASE StaUp /\ ~StaUp'
      BY <1>1, <2>2 DEF StaTold
    <2>3. CASE ~StaUp /\ StaUp'
      <3>1. StaTold' = OnEvs /\ ~NoneOf(queue', {"STA_START"}) /\ {"STA_START"} \subseteq OnEvs
        BY <1>1, <2>3 DEF StaTold, OnEvs
      <3> QED BY <3>1, Within
    <2> QED BY <1>3, <2>1, <2>2, <2>3
  <1>5. epc' \in {"start", "sleep", "retry"} /\ ~StaUp' => ~NoneOf(queue', {"STA_STOP"})
    BY <1>1, <1>2 DEF StaInv
  <1>6. "sta_connecting" \in bits' /\ ~StaUp' => Pending({"STA_STOP"})' \/ Meant'
    BY <1>1, <1>2 DEF StaInv, Pending, InHand
  <1>7. BitInv'
    <2> SUFFICES ASSUME "sta_connecting" \in bits', StaUp', link' = "idle"
                 PROVE  Trying' \/ Pending(EndEvs)' \/ (Meant' /\ Pending({"STA_START"})')
      BY DEF BitInv
    <2>1. CASE StaUp
      <3>1. Trying \/ Pending(EndEvs) \/ (Meant /\ Pending({"STA_START"}))
        BY <1>1, <2>1 DEF BitInv
      <3> QED BY <1>2, <3>1 DEF Trying, Pending, InHand
    <2>2. CASE ~StaUp
      <3>1. ~NoneOf(queue, {"STA_STOP"}) \/ InHand({"STA_STOP"}) \/ Meant
        BY <2>2 DEF StaInv, Pending
      <3>2. ~NoneOf(queue, EndEvs) \/ InHand(EndEvs) \/ Meant
        BY <3>1, Within, StaSets DEF InHand
      <3>3. ~NoneOf(queue', {"STA_START"})
        BY <1>1, <2>2
      <3> QED BY <1>2, <3>2, <3>3 DEF Pending, InHand
    <2> QED BY <2>1, <2>2
  <1> QED BY <1>1, <1>4, <1>5, <1>6, <1>7 DEF StaInv

\* An event comes into the hand of the event task.
LEMMA SerialTake ==
    ASSUME TypeOK, StaInv, BitInv, TriedInv, Take
    PROVE  StaInv' /\ BitInv' /\ TriedInv'
  <1>1. /\ UNCHANGED <<mode, auto, started, link, bits, pc, op>>
        /\ queue \in Seq(Events) /\ queue # <<>> /\ ev' = Head(queue) /\ queue' = Tail(queue)
        /\ epc = "idle" /\ epc' = "handle"
    BY DEF Take, EGoto, TypeOK, flash, app, callers
  <1>2. (StaUp' <=> StaUp) /\ StaTold' = StaTold /\ StaPast' = StaPast
    BY <1>1 DEF StaUp, StaTold, StaPast
  <1>3. /\ Followed(queue', StaPast, StaTold)
        /\ ev' \in StaPast => ~NoneOf(queue', StaTold)
    BY <1>1, FollowedFirst DEF StaInv
  <1>4. ASSUME NEW K PROVE ~NoneOf(queue, K) => ev' \in K \/ ~NoneOf(queue', K)
    <2>1. Followed(queue, {}, {})
      BY DEF Followed
    <2> QED BY <1>1, <2>1, FollowedFirst
  <1>5. ASSUME NEW K, Pending(K) PROVE ev' \in K \/ ~NoneOf(queue', K)
    BY <1>1, <1>4, <1>5 DEF Pending, InHand
  <1>6. StaInv'
    <2>1. "sta_connecting" \in bits' /\ ~StaUp' => Pending({"STA_STOP"})' \/ Meant'
      BY <1>1, <1>2, <1>5 DEF StaInv, Pending, InHand, Meant
    <2> QED BY <1>1, <1>2, <1>3, <2>1 DEF StaInv, InHand
  <1>7. BitInv'
    <2> SUFFICES ASSUME "sta_connecting" \in bits', StaUp', link' = "idle",
                        \A t \in Callers : pc'[t] # "call"
                 PROVE  Pending(EndEvs)' \/ (Meant' /\ Pending({"STA_START"})')
      BY DEF BitInv
    <2>1. Pending(EndEvs) \/ (Meant /\ Pending({"STA_START"}))
      BY <1>1, <1>2 DEF BitInv, Trying
    <2>2. Meant' = Meant
      BY <1>1 DEF Meant
    <2> QED BY <1>1, <1>5, <2>1, <2>2 DEF Pending, InHand
  <1>8. TriedInv'
    BY <1>1, <1>2, <1>5 DEF TriedInv, Trying, Pending, InHand, Joins
  <1> QED BY <1>6, <1>7, <1>8

\* It is handled.
LEMMA SerialHandle ==
    ASSUME TypeOK, StaInv, BitInv, TriedInv,
           OnApStart \/ OnApStop \/ OnStaStart \/ StartConnecting \/ OnStaStop
               \/ OnStaConnected \/ SetConnected \/ OnAssocLeave \/ OnDisconnected \/ Wake \/ Retry
    PROVE  StaInv' /\ BitInv' /\ TriedInv'
  <1>1. UNCHANGED <<mode, auto, started, link, queue, ev, pc, op>>
    BY DEF OnApStart, OnApStop, OnStaStart, StartConnecting, OnStaStop, OnStaConnected,
           SetConnected, OnAssocLeave, OnDisconnected, Wake, Retry, flash, driver, callers
  <1>2. (StaUp' <=> StaUp) /\ StaTold' = StaTold /\ StaPast' = StaPast
    BY <1>1 DEF StaUp, StaTold, StaPast
  <1>3. epc' # "handle" /\ epc \in {"handle", "start", "connected", "sleep", "retry"}
    BY DEF OnApStart, OnApStop, OnStaStart, StartConnecting, OnStaStop, OnStaConnected,
           SetConnected, OnAssocLeave, OnDisconnected, Wake, Retry, EGoto
  <1>4. /\ StaUp => "STA_STOP" \in StaPast
        /\ NoneOf(queue, StaEvs) => NoneOf(queue, StaTold)
    BY Within, StaSets DEF StaPast
  <1>5. ~StaUp => StaPast = OnEvs /\ StaTold = {"STA_STOP"}
    BY DEF StaPast, StaTold
  <1>6. ASSUME "sta_connecting" \in bits', "sta_connecting" \notin bits
        PROVE  epc \in {"start", "retry"} /\ epc' = "connect"
    BY <1>6 DEF OnApStart, OnApStop, OnStaStart, StartConnecting, OnStaStop, OnStaConnected,
           SetConnected, OnAssocLeave, OnDisconnected, Wake, Retry, EGoto, app
  <1>7. ASSUME epc' \in {"start", "sleep", "retry"}, epc \notin {"start", "sleep", "retry"}
        PROVE  InHand(OnEvs)
    BY <1>7 DEF OnApStart, OnApStop, OnStaStart, StartConnecting, OnStaStop, OnStaConnected,
           SetConnected, OnAssocLeave, OnDisconnected, Wake, Retry, EGoto, InHand, OnEvs
  <1>8. ASSUME InHand({"STA_STOP"}) PROVE "sta_connecting" \notin bits'
    BY <1>8 DEF OnApStart, OnApStop, OnStaStart, StartConnecting, OnStaStop, OnStaConnected,
           SetConnected, OnAssocLeave, OnDisconnected, Wake, Retry, EGoto, InHand
  <1>9. ASSUME "sta_connecting" \in bits', ~Trying' PROVE ~Trying /\ ~InHand(EndEvs)
    BY <1>9 DEF OnApStart, OnApStop, OnStaStart, StartConnecting, OnStaStop, OnStaConnected,
           SetConnected, OnAssocLeave, OnDisconnected, Wake, Retry, EGoto, InHand, EndEvs, Trying
  <1>10. ASSUME auto, ~Trying' PROVE ~Trying /\ (InHand(StaEvs) => InHand({"STA_STOP"}))
    BY <1>10 DEF OnApStart, OnApStop, OnStaStart, StartConnecting, OnStaStop, OnStaConnected,
           SetConnected, OnAssocLeave, OnDisconnected, Wake, Retry, EGoto, InHand, StaEvs, Trying
  <1>11. StaInv'
    <2>1. Followed(queue', StaPast', StaTold') /\ ~InHand(StaPast)'
      BY <1>1, <1>2, <1>3 DEF StaInv, InHand
    <2>2. ASSUME epc' \in {"start", "sleep", "retry"}, ~StaUp' PROVE ~NoneOf(queue', {"STA_STOP"})
      BY <1>1, <1>2, <1>5, <1>7, <2>2 DEF StaInv
    <2>3. ASSUME "sta_connecting" \in bits', ~StaUp' PROVE ~NoneOf(queue', {"STA_STOP"}) \/ Meant'
      <3>1. CASE "sta_connecting" \notin bits
        BY <1>1, <1>2, <1>6, <2>3, <3>1 DEF StaInv
      <3>2. CASE "sta_connecting" \in bits
        BY <1>1, <1>2, <1>8, <2>3, <3>2 DEF StaInv, Pending, Meant
      <3> QED BY <3>1, <3>2
    <2> QED BY <2>1, <2>2, <2>3 DEF StaInv, Pending
  <1>12. BitInv'
    <2> SUFFICES ASSUME "sta_connecting" \in bits', StaUp', link' = "idle",
                        \A t \in Callers : pc'[t] # "call", ~Trying'
                 PROVE  ~NoneOf(queue', EndEvs) \/ (Meant' /\ ~NoneOf(queue', {"STA_START"}))
      BY DEF BitInv, Pending
    <2>1. "sta_connecting" \in bits
      BY <1>6 DEF Trying
    <2>2. Trying \/ Pending(EndEvs) \/ (Meant /\ Pending({"STA_START"}))
      BY <1>1, <1>2, <2>1 DEF BitInv
    <2>3. Meant' = Meant
      BY <1>1 DEF Meant
    <2>4. Meant => ~InHand({"STA_START"})
      BY <1>10 DEF Meant, InHand, StaEvs
    <2> QED BY <1>1, <1>9, <2>2, <2>3, <2>4 DEF Pending
  <1>13. TriedInv'
    <2> SUFFICES ASSUME NEW t \in Callers, pc'[t] = "answer", Joins(t)', StaUp', auto', link' = "idle", ~Trying'
                 PROVE  ~NoneOf(queue', StaEvs)
      BY DEF TriedInv, Pending
    <2>1. Trying \/ Pending(StaEvs)
      BY <1>1, <1>2 DEF TriedInv, Joins
    <2>2. CASE InHand({"STA_STOP"})
      <3>1. StaUp /\ InHand(StaPast)
        BY <1>2, <2>2 DEF InHand, StaPast
      <3>2. ~NoneOf(queue, StaTold)
        BY <3>1 DEF StaInv
      <3> QED BY <1>1, <3>2, Within, StaSets
    <2>3. CASE ~InHand({"STA_STOP"})
      BY <1>1, <1>10, <2>1, <2>3 DEF Pending
    <2> QED BY <2>2, <2>3
  <1> QED BY <1>11, <1>12, <1>13

\* esp_wifi_connect, and what becomes of the attempt.
LEMMA SerialLink ==
    ASSUME TypeOK, LinkNeedsSta, StaInv, BitInv, TriedInv, Connect \/ LinkUp \/ LinkDown
    PROVE  StaInv' /\ BitInv' /\ TriedInv'
  <1>1. UNCHANGED <<mode, auto, started, bits, ev, pc, op>>
    BY DEF Connect, DriverConnect, LinkUp, LinkDown, flash, app, task, callers
  <1>2. (StaUp' <=> StaUp) /\ StaTold' = StaTold /\ StaPast' = StaPast
    BY <1>1 DEF StaUp, StaTold, StaPast
  <1>3. CASE Connect
    <2>1. queue' = queue /\ epc = "connect" /\ epc' = "idle" /\ (StaUp => link' # "idle")
      BY <1>3 DEF Connect, EGoto, DriverConnect
    <2>2. StaInv'
      BY <1>1, <1>2, <2>1 DEF StaInv, Pending, InHand, Meant
    <2> QED BY <1>2, <2>1, <2>2 DEF BitInv, TriedInv
  <1>4. CASE LinkUp \/ LinkDown
    <2>1. PICK e \in {"STA_CONNECTED", "DISCONNECTED", "NO_AP_FOUND"} :
              queue' = queue \o <<e>> /\ queue \in Seq(Events) /\ (link' # "idle" \/ e \in EndEvs)
              /\ e \notin StaPast /\ epc' = epc
      <3>1. StaUp /\ queue \in Seq(Events)
        BY <1>4 DEF LinkUp, LinkDown, LinkNeedsSta, TypeOK
      <3>2. "STA_CONNECTED" \notin StaPast /\ "DISCONNECTED" \notin StaPast /\ "NO_AP_FOUND" \notin StaPast
        BY <3>1 DEF StaPast
      <3>3. CASE LinkUp
        BY <3>1, <3>2, <3>3 DEF LinkUp, task
      <3>4. CASE LinkDown
        <4>1. PICK e \in {"DISCONNECTED", "NO_AP_FOUND"} : queue' = Append(queue, e)
          BY <3>4 DEF LinkDown
        <4> QED BY <3>1, <3>2, <3>4, <4>1 DEF LinkDown, task, EndEvs
      <3> QED BY <1>4, <3>3, <3>4
    <2>2. <<e>> \in Seq(Events) /\ NoneOf(<<e>>, StaPast)
      BY <2>1 DEF NoneOf, Events
    <2>3. Followed(queue', StaPast, StaTold)
      BY <2>1, <2>2, FollowedQuiet DEF StaInv
    <2>4. ASSUME NEW K PROVE ~NoneOf(queue, K) => ~NoneOf(queue', K)
      BY <2>1, <2>2, NoneOfBoth
    <2>5. ASSUME NEW K PROVE Pending(K) => Pending(K)'
      BY <1>1, <2>1, <2>4 DEF Pending, InHand
    <2>6. StaInv'
      BY <1>1, <1>2, <2>1, <2>3, <2>4, <2>5 DEF StaInv, InHand, Meant
    <2>7. link' = "idle" => ~NoneOf(queue', EndEvs) /\ ~NoneOf(queue', StaEvs)
      <3>1. ASSUME link' = "idle" PROVE ~NoneOf(<<e>>, EndEvs)
        BY <2>1, <3>1 DEF NoneOf
      <3>2. ASSUME link' = "idle" PROVE ~NoneOf(queue', EndEvs)
        BY <2>1, <2>2, <3>1, <3>2, NoneOfBoth
      <3> QED BY <3>2, Within, StaSets
    <2> QED BY <2>6, <2>7 DEF BitInv, TriedInv, Pending
  <1> QED BY <1>3, <1>4

\* A caller that leaves the interfaces alone.
LEMMA SerialBooking ==
    ASSUME TypeOK, StaInv, BitInv, CallerInv, NEW t \in Callers, Bookkeeping(t),
           \A u \in Callers : u # t => pc[u] = "idle" /\ pc'[u] = "idle"
    PROVE  StaInv' /\ BitInv' /\ TriedInv'
  <1>1. UNCHANGED <<mode, started, queue, epc, ev>>
    BY DEF Bookkeeping, CheckAp, CheckSta, ClearConnecting, AutoOff, GetMode, AutoOn, SetConfig,
           NoApConfig, UseSaved, WaitDone, WaitTimeout, MarkConnecting, ConnectAnyway, DriverConnect, Answer, Call,
           flash, driver, task
  <1>2. (StaUp' <=> StaUp) /\ StaTold' = StaTold /\ StaPast' = StaPast /\ (Trying' <=> Trying)
    BY <1>1 DEF StaUp, StaTold, StaPast, Trying
  <1>3. \A K : InHand(K)' <=> InHand(K)
    BY <1>1 DEF InHand
  <1>4. ASSUME "sta_connecting" \in bits', "sta_connecting" \notin bits
        PROVE  Meant' /\ pc'[t] = "call"
    <2>1. MarkConnecting(t)
      BY <1>4 DEF Bookkeeping, CheckAp, CheckSta, ClearConnecting, AutoOff, GetMode, AutoOn, SetConfig,
           NoApConfig, UseSaved, WaitDone, WaitTimeout, ConnectAnyway, Answer, Call, app
    <2>2. pc[t] = "force" /\ pc'[t] = "call" /\ auto' = auto
      BY <2>1, Lands DEF MarkConnecting, flash
    <2> QED BY <2>2 DEF CallerInv, Knows, Meant
  <1>5. \/ ConnectAnyway(t) /\ (StaUp => link' # "idle")
        \/ ~ConnectAnyway(t) /\ link' = link
    BY DEF Bookkeeping, CheckAp, CheckSta, ClearConnecting, AutoOff, GetMode, AutoOn, SetConfig,
           NoApConfig, UseSaved, WaitDone, WaitTimeout, MarkConnecting, ConnectAnyway, DriverConnect, Answer, Call, driver
\* A caller on its way to turn the auto-connect off has seen to the bit.
  <1>10. ASSUME "sta_connecting" \in bits', "sta_connecting" \in bits, Meant PROVE Meant'
    <2>1. pc[t] # "auto_off"
      BY <1>10 DEF Meant
    <2>2. auto' = auto \/ auto' = TRUE
      BY <2>1 DEF Bookkeeping, CheckAp, CheckSta, ClearConnecting, AutoOff, GetMode, AutoOn, SetConfig,
           NoApConfig, UseSaved, WaitDone, WaitTimeout, MarkConnecting, ConnectAnyway, Answer, Call, flash, Goto
    <2>3. ~ClearConnecting(t)
      BY <1>10 DEF ClearConnecting
    <2>4. pc'[t] # "auto_off"
      <3>1. CASE CheckAp(t) \/ CheckSta(t) \/ AutoOff(t) \/ Answer(t) \/ (\E o \in Ops : Call(t, o))
        BY <1>10, <2>1, <3>1 DEF CheckAp, CheckSta, AutoOff, Answer, Call, Goto, Return, Disconnected, TypeOK
      <3> QED BY <2>3, <3>1, Lands DEF Bookkeeping
    <2> QED BY <1>10, <2>2, <2>4 DEF Meant
  <1>6. StaInv'
    <2>1. "sta_connecting" \in bits' /\ ~StaUp' => Pending({"STA_STOP"})' \/ Meant'
      BY <1>1, <1>2, <1>4, <1>10 DEF StaInv, Pending, InHand
    <2> QED BY <1>1, <1>2, <2>1 DEF StaInv, InHand
\* Only ConnectAnyway leaves the call behind.
  <1>7. ~ConnectAnyway(t) => pc[t] # "call"
    BY Lands DEF Bookkeeping
  <1>8. BitInv'
    <2> SUFFICES ASSUME "sta_connecting" \in bits', StaUp, link' = "idle", \A u \in Callers : pc'[u] # "call"
                 PROVE  Trying \/ Pending(EndEvs) \/ (Meant' /\ Pending({"STA_START"}))
      BY <1>1, <1>2 DEF BitInv, Pending, InHand
    <2>1. "sta_connecting" \in bits /\ ~ConnectAnyway(t) /\ link = "idle"
      BY <1>4, <1>5
    <2>2. Meant => Meant'
      BY <1>10, <2>1
    <2> QED BY <1>7, <2>1, <2>2 DEF BitInv
  <1>9. TriedInv'
    <2> SUFFICES ASSUME NEW u \in Callers, pc'[u] = "answer", Joins(u)', StaUp, link' = "idle"
                 PROVE  Trying \/ Pending(StaEvs)
      BY <1>1, <1>2 DEF TriedInv, Pending, InHand
    <2>1. u = t /\ ~ConnectAnyway(t) /\ link = "idle"
      BY <1>5
    <2>2. WaitDone(t) /\ pc[t] = "wait" /\ Joins(t)
      BY <2>1, Lands DEF Bookkeeping, Joins
    <2>3. "sta_connecting" \in bits
      BY <2>2 DEF WaitDone, Awaited, Joins
    <2>4. Trying \/ Pending(EndEvs) \/ Pending({"STA_START"})
      BY <2>1, <2>2, <2>3 DEF BitInv
    <2>5. Pending(EndEvs) \/ Pending({"STA_START"}) => Pending(StaEvs)
      BY Within, StaSets DEF Pending, InHand
    <2> QED BY <2>4, <2>5
  <1> QED BY <1>6, <1>8, <1>9

\* A caller that changes them.
LEMMA SerialConfiguring ==
    ASSUME TypeOK, LinkNeedsSta, StaInv, BitInv, CallerInv, NEW t \in Callers, Configuring(t), up = "yes",
           \A u \in Callers : u # t => pc[u] = "idle" /\ pc'[u] = "idle"
    PROVE  StaInv' /\ BitInv' /\ TriedInv'
  <1>1. UNCHANGED <<auto, bits, epc, ev>> /\ pc[t] \in {"get", "mode", "start", "stop"}
    BY DEF Configuring, SetMode, StartDriver, UnsetMode, StopDriver, GetModeFails, StartFails,
           flash, app, task, Goto
  <1>2. pc'[t] \in {"idle", "auto_on", "config", "start", "stop", "get"} /\ (Meant => Meant')
    <2>1. pc'[t] \in {"idle", "auto_on", "config", "start", "stop", "get"}
      BY CallerConfiguring
    <2> QED BY <1>1, <2>1 DEF Meant
  <1>3. TriedInv'
    BY <1>2 DEF TriedInv
  <1>4. \/ UNCHANGED <<mode, started, link, queue>>
        \/ \E md \in SUBSET Ifaces, s \in BOOLEAN : Reconfigure(md, s)
    <2>1. mode \in SUBSET Ifaces /\ started \in BOOLEAN /\ Target(t) \in Ifaces
      BY DEF TypeOK, Target, Ifaces
    <2> QED BY <2>1 DEF Configuring, SetMode, StartDriver, UnsetMode, StopDriver, GetModeFails, StartFails,
                        flash, driver
  <1>5. \A u \in Callers : pc[u] # "call"
    BY <1>1
  <1>6. CASE UNCHANGED <<mode, started, link, queue>>
    <2>1. (StaUp' <=> StaUp) /\ StaTold' = StaTold /\ StaPast' = StaPast
      BY <1>6 DEF StaUp, StaTold, StaPast
    <2>2. StaInv'
      BY <1>1, <1>2, <1>6, <2>1 DEF StaInv, Pending, InHand
    <2>3. BitInv'
      BY <1>1, <1>2, <1>5, <1>6, <2>1 DEF BitInv, Trying, Pending, InHand
    <2> QED BY <1>3, <2>2, <2>3
  <1>7. CASE \E md \in SUBSET Ifaces, s \in BOOLEAN : Reconfigure(md, s)
    BY <1>1, <1>2, <1>3, <1>5, <1>7, SerialMoved
  <1> QED BY <1>4, <1>6, <1>7

\* app_wifi_start: nobody has called an action yet.
LEMMA SerialBoot ==
    ASSUME TypeOK, LinkNeedsSta, SerialInv, Boot
    PROVE  SerialInv'
  <1>1. /\ up = "no" /\ up' \in {"yes", "failed"} /\ UNCHANGED <<epc, ev, pc, op>>
        /\ bits' = bits \/ bits' = bits \union {"wifi_error"}
    BY DEF Boot, WifiStart, WifiStartFails, app, task, callers
  <1>2. Quieted
    BY <1>1 DEF SerialInv, CallerInv
  <1>3. epc' = "idle" /\ "sta_connecting" \notin bits' /\ \A t \in Callers : pc'[t] = "idle"
    BY <1>1, <1>2 DEF Quieted
  <1>4. BitInv' /\ TriedInv'
    BY <1>3 DEF BitInv, TriedInv
  <1>5. Followed(queue, StaPast, StaTold)
    BY DEF SerialInv, StaInv
  <1>6. CASE UNCHANGED <<mode, started, link, queue>>
    <2>1. Followed(queue', StaPast', StaTold')
      BY <1>5, <1>6 DEF StaPast, StaTold, StaUp
    <2>2. StaInv'
      BY <1>3, <2>1 DEF StaInv, InHand
    <2>3. CallerInv'
      BY <1>2, <1>3, <1>6 DEF CallerInv, Quieted, Knows
    <2> QED BY <1>4, <2>2, <2>3 DEF SerialInv
  <1>7. CASE Reconfigure(mode, TRUE) /\ up' = "yes"
    <2>1. mode \in SUBSET Ifaces
      BY DEF TypeOK
    <2>2. Followed(queue', StaPast', StaTold')
      BY <1>5, <1>7, <2>1, ReconfigurePosts
    <2>3. StaInv'
      BY <1>3, <2>2 DEF StaInv, InHand
    <2>4. CallerInv'
      BY <1>3, <1>7 DEF CallerInv, Knows
    <2> QED BY <1>4, <2>3, <2>4 DEF SerialInv
  <1> QED BY <1>6, <1>7 DEF Boot, WifiStart, WifiStartFails, driver

LEMMA SerialRestarted ==
    ASSUME queue' = <<>>, "sta_connecting" \notin bits', epc' = "idle", started' = FALSE,
           \A t \in Callers : pc'[t] = "idle"
    PROVE  SerialInv'
  <1>1. StaInv'
    BY DEF StaInv, Followed, InHand
  <1>2. BitInv' /\ TriedInv' /\ CallerInv'
    BY DEF BitInv, TriedInv, CallerInv, Quieted, Knows
  <1> QED BY <1>1, <1>2 DEF SerialInv

LEMMA SerialNext ==
    ASSUME IInv, SerialInv, OneAtATime, OneAtATime', [Next]_vars
    PROVE  SerialInv'
  <1>1. TypeOK /\ LinkNeedsSta /\ StaInv /\ BitInv /\ TriedInv /\ CallerInv
    BY DEF IInv, SerialInv
  <1>2. CASE Restart
    BY <1>2, SerialRestarted DEF Restart
  <1>3. CASE Boot
    BY <1>1, <1>3, SerialBoot DEF SerialInv
  <1>4. CASE (HandleEvent \/ LinkUp \/ LinkDown) /\ ~Restart
    <2>1. CallerInv'
      BY <1>1, <1>4, CallerQuiet
    <2>2. StaInv' /\ BitInv' /\ TriedInv'
      BY <1>1, <1>4, SerialTake, SerialHandle, SerialLink DEF HandleEvent, GiveUp
    <2> QED BY <2>1, <2>2 DEF SerialInv
  <1>5. ASSUME NEW t \in Callers, Step(t) \/ (\E o \in Ops : Call(t, o)), ~Restart
        PROVE  SerialInv'
    <2>1. \A u \in Callers : u # t => pc[u] = "idle" /\ pc'[u] = "idle"
      BY <1>1, <1>5, Others
    <2>2. Bookkeeping(t) \/ Configuring(t)
      BY <1>5 DEF Step, Bookkeeping, Configuring
    <2>3. up = "yes"
      <3>1. CASE pc[t] # "idle"
        BY <1>1, <3>1 DEF CallerInv, Quieted
      <3>2. CASE pc[t] = "idle"
        BY <1>5, <3>2 DEF Call, Step, CheckAp, CheckSta, ClearConnecting, AutoOff, GetMode, SetMode,
           StartDriver, UnsetMode, StopDriver, GetModeFails, StartFails, AutoOn, SetConfig, NoApConfig, UseSaved,
           WaitDone, WaitTimeout, MarkConnecting, ConnectAnyway, Answer, Goto
      <3> QED BY <3>1, <3>2
    <2>4. CASE Bookkeeping(t)
      BY <1>1, <2>1, <2>3, <2>4, CallerBooking, SerialBooking DEF SerialInv
    <2>5. CASE Configuring(t)
      BY <1>1, <2>1, <2>3, <2>5, CallerConfiguring, SerialConfiguring DEF SerialInv
    <2> QED BY <2>2, <2>4, <2>5
  <1>6. CASE UNCHANGED vars
    <2>1. UNCHANGED <<mode, auto, started, link, queue, bits, epc, ev, up, pc, op, got>>
      BY <1>6 DEF vars, flash, driver, app, task, callers
    <2>2. (StaUp' <=> StaUp) /\ StaTold' = StaTold /\ StaPast' = StaPast
      BY <2>1 DEF StaUp, StaTold, StaPast
    <2>3. CallerInv'
      BY <1>1, <2>1 DEF CallerInv, Quieted, Knows, Joins
    <2>4. StaInv'
      BY <1>1, <2>1, <2>2 DEF StaInv, Pending, InHand, Meant
    <2>5. BitInv' /\ TriedInv'
      BY <1>1, <2>1, <2>2 DEF BitInv, TriedInv, Trying, Pending, InHand, Joins, Meant
    <2> QED BY <2>3, <2>4, <2>5 DEF SerialInv
  <1> QED BY <1>2, <1>3, <1>4, <1>5, <1>6 DEF Next, PowerLoss

\* When actions are called one at a time, by any number of threads and any
\* number of times, app_wifi_connect never returns APP_OK for a station that
\* is on, meant to connect and left without an attempt: the bit it waited for
\* was that of an attempt, or the attempt is made once the events are handled.
THEOREM OneAtATimeConnects == Spec /\ []OneAtATime => []ConnectTried
  <1>1. Init => SerialInv
    <2> SUFFICES ASSUME Init PROVE SerialInv
      OBVIOUS
    <2>1. queue = <<>> /\ bits = {} /\ epc = "idle" /\ ~started /\ \A t \in Callers : pc[t] = "idle"
      BY DEF Init
    <2>2. StaInv
      BY <2>1 DEF StaInv, Followed, InHand
    <2>3. BitInv /\ TriedInv /\ CallerInv
      BY <2>1 DEF BitInv, TriedInv, CallerInv, Quieted, Knows
    <2> QED BY <2>2, <2>3 DEF SerialInv
  <1>2. IInv /\ SerialInv /\ OneAtATime /\ OneAtATime' /\ [Next]_vars => SerialInv'
    BY SerialNext
  <1>3. IInv /\ SerialInv => ConnectTried
    <2> SUFFICES ASSUME SerialInv, NEW t \in Callers, pc[t] = "answer", Joins(t), StaUp, auto,
                        link = "idle", Settled
                 PROVE  FALSE
      BY DEF ConnectTried
    <2>1. Trying \/ Pending(StaEvs)
      BY DEF SerialInv, TriedInv
    <2>2. ~Trying /\ ~Pending(StaEvs)
      BY DEF Settled, Trying, Pending, InHand, NoneOf
    <2> QED BY <2>1, <2>2
  <1> QED BY <1>1, <1>2, <1>3, BitsTrack, PTL DEF Spec

=============================================================================
