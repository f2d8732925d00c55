----------------------------- MODULE IDEProofs -----------------------------
(***************************************************************************)
(* Proofs about IDE and IDEProbe, for every set of threads, every capacity *)
(* and every cabling: the units of the mutex balance, a read starts with   *)
(* the block it asked for as long as the controller is not shared, and     *)
(* only disks are registered.                                              *)
(***************************************************************************)
EXTENDS IDEProbe, Integers, FiniteSetTheorems, TLAPS

Label == {"idle", "lock", "select", "command", "poll", "data_out", "down",
          "wait", "check", "data_in", "unlock"}
IDENTIFY == [NoRequest EXCEPT !.type = "identify"]
Device == [BSY : BOOLEAN, DRQ : BOOLEAN, ERR : BOOLEAN,
           cmd : Request \cup {NoRequest, IDENTIFY}, left : Int]

Typed ==
    /\ mutex \in [value : 0..(Word - 1), queue : Seq(Thread \cup {stray})]
    /\ pc \in [Thread -> Label]
    /\ req \in [Thread -> Request \cup {NoRequest}]
    /\ done \in [Thread -> Nat]
    /\ device \in Device /\ irq \in BOOLEAN

\* From the command on the device d works for the thread, with request r, n blocks
\* copied, and at label; before the first block a read goes on when the device has
\* given up or has that block ready.
Issued == {"poll", "data_out", "down", "wait", "check", "data_in"}
Ready(d) == ~d.BSY /\ (d.ERR \/ d.DRQ)
Served(label, r, n, d) ==
    /\ label # "idle" => r \in Request
    /\ label \in {"lock", "select", "command", "poll"} => n = 0
    /\ label \in Issued => d.cmd = r
    /\ label = "data_out" => r.type = "write"
    /\ label = "data_in" => r.type = "read"
    /\ r.type = "read" /\ n = 0 =>
          /\ label \in Issued => d.left = r.nblocks
          /\ label \in {"down", "wait", "check", "data_in"} => Ready(d)
          /\ label = "poll" /\ ~d.BSY => Ready(d)
          /\ label = "data_in" => ~d.ERR

\* As long as no two threads have met in the controller, it serves each of them.
Serving ==
    alone => MutexExcludes /\ \A t \in Thread : Served(pc[t], req[t], done[t], device)

\* The probe comes before the first request.
Quiet == at # "done" => \A t \in Thread : pc[t] = "idle"

IDEInv == Typed /\ alone \in BOOLEAN /\ Serving /\ Quiet

\* What identify_ide_device knows at its steps.
ProbeInv ==
    /\ attached \in Cabling /\ j \in Position
    /\ at \in {"reset", "select", "signature", "wait", "collect"} => attached # NULL
    /\ at \in {"wait", "collect"} /\ j \notin atapi => attached[j] = "ata"
    /\ at = "wait" /\ attached[j] = "none" => ~device.BSY /\ ~device.DRQ
    /\ at = "collect" => ~device.BSY /\ device.DRQ /\ attached[j] # "none"
    /\ info \in [Position -> {"ata", "atapi", "none", NULL}]
    /\ DisksAreReal
-----------------------------------------------------------------------------
\* What the types of the variables say of their parts.
LEMMA TypeFacts ==
    ASSUME Typed
    PROVE  /\ mutex.value \in 0..7
           /\ device \in Device /\ device.left \in Int
           /\ {device.BSY, device.DRQ, device.ERR, irq} \subseteq BOOLEAN
           /\ device.cmd \in Request \cup {NoRequest, IDENTIFY}
<1>1. device \in Device /\ irq \in BOOLEAN
  BY DEF Typed
<1>2. device.BSY \in BOOLEAN /\ device.DRQ \in BOOLEAN /\ device.ERR \in BOOLEAN
  BY <1>1, Zenon DEF Device
<1>3. device.left \in Int /\ device.cmd \in Request \cup {NoRequest, IDENTIFY}
  BY <1>1, Zenon DEF Device
<1>4. mutex.value \in 0..7
  BY DEF Typed, Word
<1> QED  BY <1>1, <1>2, <1>3, <1>4

\* A thread outside the controller does not care what the device does.
LEMMA OthersServed ==
    ASSUME NEW label, NEW r, NEW n, NEW d, NEW e, Served(label, r, n, d),
           label \in {"idle", "lock"}
    PROVE  Served(label, r, n, e)
  BY DEF Served, Issued

\* A step of the one thread that uses the controller.
LEMMA UserStep ==
    ASSUME Serving, alone, pc \in [Thread -> Label], NEW t \in Thread, Using(t),
           \A u \in Thread \ {t} : pc'[u] = pc[u] /\ req'[u] = req[u] /\ done'[u] = done[u],
           Served(pc'[t], req'[t], done'[t], device')
    PROVE  \A u \in Thread : Served(pc'[u], req'[u], done'[u], device')
<1> SUFFICES ASSUME NEW u \in Thread, u # t
             PROVE  Served(pc'[u], req'[u], done'[u], device')
  OBVIOUS
<1>1. Served(pc[u], req[u], done[u], device) /\ pc[u] \in {"idle", "lock"}
  BY DEF Serving, MutexExcludes, Using
<1> QED  BY <1>1, OthersServed

\* A step of a thread that is outside leaves the device to the others.
LEMMA OutsideStep ==
    ASSUME Serving, alone, NEW t \in Thread, device' = device,
           \A u \in Thread \ {t} : pc'[u] = pc[u] /\ req'[u] = req[u] /\ done'[u] = done[u],
           Served(pc'[t], req'[t], done'[t], device)
    PROVE  \A u \in Thread : Served(pc'[u], req'[u], done'[u], device')
  BY DEF Serving
-----------------------------------------------------------------------------
\* Every action of a thread keeps the types.
LEMMA ThreadTyped ==
    ASSUME Typed, NEW t \in Thread, Lock(t) \/ Step(t)
    PROVE  Typed'
<1> USE TypeFacts
<1>1. ASSUME NEW m \in Label, Goto(t, m), UNCHANGED <<mutex, req, done, device, irq>>
      PROVE  Typed'
  BY <1>1 DEF Typed, Goto
<1>2. CASE Lock(t)
  <2> DEFINE down == ksema_down(mutex, t, "select", "lock")
  <2>1. /\ down.sem \in [value : 0..(Word - 1), queue : Seq(Thread \cup {stray})]
        /\ down.label \in Label
    <3>1. CASE mutex.value # 0
      <4>1. down = [sem |-> [mutex EXCEPT !.value = @ - 1], label |-> "select"]
        BY <3>1 DEF ksema_down
      <4>2. mutex.value - 1 \in 0..(Word - 1)
        BY <3>1 DEF Word
      <4>3. [mutex EXCEPT !.value = @ - 1] \in [value : 0..(Word - 1), queue : Seq(Thread \cup {stray})]
        BY <4>2, Zenon DEF Typed
      <4> QED  BY <4>1, <4>3 DEF Label
    <3>2. CASE mutex.value = 0
      <4>1. down.sem = [mutex EXCEPT !.queue = Append(mutex.queue, t)] /\ down.label = "lock"
        BY <3>2, Zenon DEF ksema_down
      <4>2. mutex.queue \in Seq(Thread \cup {stray})
        BY DEF Typed
      <4>3. Append(mutex.queue, t) \in Seq(Thread \cup {stray})
        BY <4>2
      <4>4. [mutex EXCEPT !.queue = Append(mutex.queue, t)] \in [value : 0..(Word - 1), queue : Seq(Thread \cup {stray})]
        BY <4>3, Zenon DEF Typed
      <4> HIDE DEF down
      <4> QED  BY <4>1, <4>4, Zenon DEF Label
    <3> QED  BY <3>1, <3>2
  <2>2. /\ mutex' = down.sem /\ pc' = [pc EXCEPT ![t] = down.label]
        /\ \E r \in Request : req' = [req EXCEPT ![t] = r]
        /\ done' = [done EXCEPT ![t] = 0] /\ UNCHANGED <<device, irq>>
    BY <1>2, Zenon DEF Lock, Goto
  <2> HIDE DEF down
  <2> QED  BY <2>1, <2>2 DEF Typed
<1>3. CASE Locked(t)
  <2>1. (mutex.value + Word - 1) % Word \in 0..(Word - 1)
    BY DEF Word
  <2>2. mutex' \in [value : 0..(Word - 1), queue : Seq(Thread \cup {stray})]
    BY <1>3, <2>1, Zenon DEF Locked, ksema_resume, Typed
  <2> QED  BY <1>3, <2>2 DEF Locked, Goto, Typed, Label
<1>4. CASE Unlock(t)
  <2>1. (mutex.value + 1) % Word \in 0..(Word - 1)
    BY DEF Word
  <2>2. mutex.queue \in Seq(Thread \cup {stray})
    BY DEF Typed
  <2>3. (IF mutex.queue = << >> THEN << >> ELSE Tail(mutex.queue)) \in Seq(Thread \cup {stray})
    BY <2>2
  <2>4. mutex' \in [value : 0..(Word - 1), queue : Seq(Thread \cup {stray})]
    BY <1>4, <2>1, <2>3, Zenon DEF Unlock, ksema_up
  <2> QED  BY <1>4, <2>4 DEF Unlock, Goto, Typed, Label
<1>5. CASE Select(t) \/ Poll(t) \/ Check(t)
  <2>1. \E m \in Label : Goto(t, m)
    BY <1>5 DEF Select, Poll, Check, Label
  <2> QED  BY <1>1, <1>5, <2>1 DEF Select, Poll, Check
<1>6. CASE Command(t)
  <2>1. req[t] \in Request \cup {NoRequest} /\ req[t].nblocks \in Int
    BY DEF Typed, Request, NoRequest
  <2>2. device' \in Device
    BY <1>6, <2>1, Zenon DEF Command, Device
  <2> QED  BY <1>6, <2>2 DEF Command, Goto, Typed, Label
<1>7. CASE Down(t)
  <2>1. ksema_down(io_sema, t, "check", "wait").label \in Label
    BY DEF ksema_down, Label
  <2> QED  BY <1>1, <1>7, <2>1, Zenon DEF Down
<1>8. CASE Resumed(t)
  BY <1>1, <1>8 DEF Resumed, Label
<1>9. CASE DataOut(t) \/ DataIn(t)
  <2>1. PICK then \in {"down", "unlock"} : Copy(t, then)
    BY <1>9 DEF DataOut, DataIn
  <2>2. device' \in Device
    <3>1. (device.left - 1) \in Int
      BY DEF Typed
    <3>2. (device.cmd.type = "write" \/ device.left > 1) \in BOOLEAN
      BY Zenon
    <3> QED  BY <2>1, <3>1, <3>2, Zenon DEF Copy, Transfer, Device
  <2>3. /\ done' = [done EXCEPT ![t] = @ + 1]
        /\ pc' = [pc EXCEPT ![t] = IF done'[t] = req[t].nblocks THEN then ELSE pc[t]]
        /\ UNCHANGED <<mutex, req, irq>>
    BY <2>1 DEF Copy, Goto
  <2>4. done' \in [Thread -> Nat] /\ pc' \in [Thread -> Label]
    BY <2>3 DEF Typed, Label
  <2> QED  BY <2>2, <2>3, <2>4 DEF Typed
<1> QED  BY <1>2, <1>3, <1>4, <1>5, <1>6, <1>7, <1>8, <1>9 DEF Step

\* Every action of a thread keeps the device at the service of the threads.
LEMMA ThreadServed ==
    ASSUME Typed, Serving, alone, NEW t \in Thread, Lock(t) \/ Step(t)
    PROVE  \A u \in Thread : Served(pc'[u], req'[u], done'[u], device')
<1> USE TypeFacts
<1> DEFINE Others == \A u \in Thread \ {t} :
                        pc'[u] = pc[u] /\ req'[u] = req[u] /\ done'[u] = done[u]
<1>1. Served(pc[t], req[t], done[t], device)
  BY DEF Serving
<1>2. pc \in [Thread -> Label] /\ req \in [Thread -> Request \cup {NoRequest}]
      /\ done \in [Thread -> Nat]
  BY DEF Typed
<1>3. ASSUME NEW m, Goto(t, m), UNCHANGED <<req, done>>
      PROVE  Others /\ pc'[t] = m /\ req'[t] = req[t] /\ done'[t] = done[t]
  BY <1>2, <1>3 DEF Goto
<1>4. CASE Lock(t)
  <2> DEFINE label == ksema_down(mutex, t, "select", "lock").label
  <2>1. label \in {"select", "lock"}
    BY DEF ksema_down
  <2>2. /\ pc' = [pc EXCEPT ![t] = label] /\ device' = device
        /\ \E r \in Request : req' = [req EXCEPT ![t] = r]
        /\ done' = [done EXCEPT ![t] = 0]
    BY <1>4, Zenon DEF Lock, Goto
  <2> HIDE DEF label
  <2>3. Others /\ pc'[t] = label /\ req'[t] \in Request /\ done'[t] = 0
    BY <1>2, <2>2
  <2>4. Served(pc'[t], req'[t], done'[t], device)
    BY <2>1, <2>3 DEF Served, Issued
  <2> QED  BY <2>2, <2>3, <2>4, OutsideStep
<1>5. CASE Locked(t)
  <2>1. pc[t] = "lock" /\ Goto(t, "select") /\ UNCHANGED <<req, done, device>>
    BY <1>5 DEF Locked
  <2>2. Others /\ pc'[t] = "select" /\ req'[t] = req[t] /\ done'[t] = done[t]
    BY <1>3, <2>1
  <2>3. Served(pc'[t], req'[t], done'[t], device)
    BY <1>1, <2>1, <2>2 DEF Served, Issued
  <2> QED  BY <2>1, <2>2, <2>3, OutsideStep
<1>6. CASE Unlock(t)
  <2>1. /\ Goto(t, "idle") /\ UNCHANGED device /\ req' = [req EXCEPT ![t] = NoRequest]
        /\ done' = [done EXCEPT ![t] = 0]
    BY <1>6 DEF Unlock
  <2>2. Others /\ pc'[t] = "idle" /\ req'[t] = NoRequest
    BY <1>2, <2>1 DEF Goto
  <2>3. Served(pc'[t], req'[t], done'[t], device)
    BY <2>2 DEF Served, Issued, NoRequest
  <2> QED  BY <2>1, <2>2, <2>3, OutsideStep
<1>7. CASE Select(t)
  <2>1. /\ pc[t] = "select" /\ UNCHANGED <<req, done, device>>
        /\ \E m \in {"command", "unlock"} : Goto(t, m)
    BY <1>7 DEF Select
  <2>2. PICK m \in {"command", "unlock"} : Goto(t, m)
    BY <2>1
  <2>3. Others /\ pc'[t] = m /\ req'[t] = req[t] /\ done'[t] = done[t]
    BY <1>3, <2>1, <2>2
  <2>4. Served(pc'[t], req'[t], done'[t], device)
    BY <1>1, <2>1, <2>3 DEF Served, Issued
  <2> QED  BY <2>1, <2>3, <2>4, OutsideStep
<1>8. CASE Command(t)
  <2>1. pc[t] = "command" /\ Goto(t, "poll") /\ UNCHANGED <<req, done>>
    BY <1>8 DEF Command
  <2>2. Others /\ pc'[t] = "poll" /\ req'[t] = req[t] /\ done'[t] = done[t]
    BY <1>3, <2>1
  <2>3. device'.BSY /\ device'.cmd = req[t] /\ device'.left = req[t].nblocks
    BY <1>8 DEF Command
  <2>4. Served(pc'[t], req'[t], done'[t], device')
    BY <1>1, <2>1, <2>2, <2>3 DEF Served, Issued
  <2>5. Using(t)
    BY <2>1 DEF Using
  <2> QED  BY <1>2, <2>2, <2>4, <2>5, UserStep
<1>9. CASE Poll(t)
  <2>1. pc[t] = "poll" /\ UNCHANGED <<req, done, device>>
    BY <1>9 DEF Poll
  <2>2. PICK ok \in wait_for_controller(~device.BSY) :
            Goto(t, IF ~ok \/ device.ERR THEN "unlock"
                    ELSE IF req[t].type = "write" THEN "data_out" ELSE "down")
    BY <1>9 DEF Poll
  <2>3. CASE ok /\ ~device.ERR
    <3>1. ~device.BSY
      BY <2>2, <2>3, Zenon DEF wait_for_controller
    <3>2. PICK m \in {"data_out", "down"} :
              Goto(t, m) /\ (m = "data_out" => req[t].type = "write")
      BY <2>2, <2>3, Zenon
    <3>3. Others /\ pc'[t] = m /\ req'[t] = req[t] /\ done'[t] = done[t]
      BY <1>3, <2>1, <3>2
    <3>4. Served(pc'[t], req'[t], done'[t], device)
      BY <1>1, <2>1, <2>3, <3>1, <3>2, <3>3 DEF Served, Issued, Ready
    <3> QED  BY <2>1, <3>3, <3>4, OutsideStep
  <2>4. CASE ~ok \/ device.ERR
    <3>1. Goto(t, "unlock")
      BY <2>2, <2>4, Zenon
    <3>2. Others /\ pc'[t] = "unlock" /\ req'[t] = req[t] /\ done'[t] = done[t]
      BY <1>3, <2>1, <3>1
    <3>3. Served(pc'[t], req'[t], done'[t], device)
      BY <1>1, <2>1, <3>2 DEF Served, Issued
    <3> QED  BY <2>1, <3>2, <3>3, OutsideStep
  <2> QED  BY <2>3, <2>4, Zenon
<1>10. CASE Down(t) \/ Resumed(t)
  <2>1. /\ pc[t] \in {"down", "wait"} /\ UNCHANGED <<req, done, device>>
        /\ \E m \in {"check", "wait"} : Goto(t, m)
    <3>1. ksema_down(io_sema, t, "check", "wait").label \in {"check", "wait"}
      BY DEF ksema_down
    <3> QED  BY <1>10, <3>1, Zenon DEF Down, Resumed
  <2>2. PICK m \in {"check", "wait"} : Goto(t, m)
    BY <2>1
  <2>3. Others /\ pc'[t] = m /\ req'[t] = req[t] /\ done'[t] = done[t]
    BY <1>3, <2>1, <2>2
  <2>4. Served(pc'[t], req'[t], done'[t], device)
    BY <1>1, <2>1, <2>3 DEF Served, Issued
  <2> QED  BY <2>1, <2>3, <2>4, OutsideStep
<1>11. CASE Check(t)
  <2>1. /\ pc[t] = "check" /\ UNCHANGED <<req, done, device>>
        /\ \E m \in {"unlock", "data_in"} :
              Goto(t, m) /\ (m = "data_in" => ~device.ERR /\ req[t].type = "read")
    BY <1>11 DEF Check
  <2>2. PICK m \in {"unlock", "data_in"} :
              Goto(t, m) /\ (m = "data_in" => ~device.ERR /\ req[t].type = "read")
    BY <2>1
  <2>3. Others /\ pc'[t] = m /\ req'[t] = req[t] /\ done'[t] = done[t]
    BY <1>3, <2>1, <2>2
  <2>4. Served(pc'[t], req'[t], done'[t], device)
    BY <1>1, <2>1, <2>2, <2>3 DEF Served, Issued
  <2> QED  BY <2>1, <2>3, <2>4, OutsideStep
<1>12. CASE DataOut(t) \/ DataIn(t)
  <2>1. PICK then \in {"down", "unlock"} :
            /\ Copy(t, then) /\ pc[t] \in {"data_out", "data_in"}
            /\ pc[t] = "data_in" => then = "unlock"
    BY <1>12 DEF DataOut, DataIn
  <2>2. /\ done' = [done EXCEPT ![t] = @ + 1]
        /\ pc' = [pc EXCEPT ![t] = IF done'[t] = req[t].nblocks THEN then ELSE pc[t]]
        /\ UNCHANGED req /\ Transfer
    BY <2>1 DEF Copy, Goto
  <2>3. Others /\ done'[t] # 0 /\ pc'[t] \in {then, pc[t]} /\ req'[t] = req[t]
    BY <1>2, <2>2
  <2>4. device'.cmd = device.cmd
    BY <2>2 DEF Transfer, Device
  <2>5. Served(pc'[t], req'[t], done'[t], device')
    BY <1>1, <2>1, <2>3, <2>4 DEF Served, Issued
  <2>6. Using(t)
    BY <2>1 DEF Using
  <2> QED  BY <1>2, <2>3, <2>5, <2>6, UserStep
<1> QED  BY <1>4, <1>5, <1>6, <1>7, <1>8, <1>9, <1>10, <1>11, <1>12 DEF Step
-----------------------------------------------------------------------------
\* The device changes when it is busy: with the block or the error that a request
\* waits for, or late with what the probe asked for, when no request is under way.
LEMMA DeviceServed ==
    ASSUME Typed, Serving, alone, UNCHANGED <<pc, req, done>>, device.BSY,
           device'.cmd = device.cmd \/ device.cmd \notin Request,
           device.cmd \in Request =>
               /\ device'.left = device.left /\ ~device'.BSY
               /\ device'.ERR \/ device'.DRQ \/ ~(device.left > 0)
    PROVE  \A u \in Thread : Served(pc'[u], req'[u], done'[u], device')
<1> SUFFICES ASSUME NEW u \in Thread PROVE Served(pc[u], req[u], done[u], device')
  OBVIOUS
<1>1. Served(pc[u], req[u], done[u], device)
  BY DEF Serving
<1>2. CASE pc[u] \in Issued
  <2>1. req[u] \in Request /\ device.cmd = req[u]
    BY <1>1, <1>2 DEF Served, Issued
  <2>2. device'.cmd = device.cmd /\ device'.left = device.left /\ ~device'.BSY
    BY <2>1
  <2>3. CASE req[u].type = "read" /\ done[u] = 0
    <3>1. pc[u] = "poll" /\ device.left = req[u].nblocks
      BY <1>1, <1>2, <2>3 DEF Served, Issued, Ready
    <3>2. req[u].nblocks \in Nat /\ req[u].nblocks > 0
      BY <2>1, IDEAssumption DEF Request
    <3>3. Ready(device')
      BY <2>1, <2>2, <3>1, <3>2 DEF Ready
    <3> QED  BY <1>1, <2>1, <2>2, <3>1, <3>3 DEF Served, Issued
  <2>4. CASE ~(req[u].type = "read" /\ done[u] = 0)
    BY <1>1, <2>1, <2>2, <2>4 DEF Served
  <2> QED  BY <2>3, <2>4
<1>3. CASE pc[u] \notin Issued
  BY <1>1, <1>3 DEF Served, Issued
<1> QED  BY <1>2, <1>3

\* The steps of the threads, the interrupt and the device keep the invariant.
LEMMA RequestsKeep ==
    ASSUME IDEInv, Requests
    PROVE  IDEInv'
<1> USE TypeFacts
<1>1. Typed /\ Serving /\ at = "done" /\ at' = at /\ alone \in BOOLEAN
  BY DEF IDEInv, Requests, probe
<1>2. alone' = (alone /\ MutexExcludes')
  BY DEF Requests
<1>3. ASSUME Typed', alone => \A u \in Thread : Served(pc'[u], req'[u], done'[u], device')
      PROVE  IDEInv'
  <2>1. alone' \in BOOLEAN /\ (alone' => alone /\ MutexExcludes')
    BY <1>2, Zenon
  <2>2. Serving'
    BY <1>3, <2>1 DEF Serving
  <2>3. Quiet'
    BY <1>1 DEF Quiet
  <2> QED  BY <1>3, <2>1, <2>2, <2>3 DEF IDEInv
<1>4. CASE \E t \in Thread : Lock(t) \/ Step(t)
  BY <1>1, <1>3, <1>4, ThreadTyped, ThreadServed
<1>5. CASE Interrupt
  <2>1. UNCHANGED <<mutex, pc, req, done, device>> /\ irq' = FALSE
    BY <1>5 DEF Interrupt
  <2>2. Typed'
    BY <1>1, <2>1 DEF Typed
  <2>3. alone => \A u \in Thread : Served(pc'[u], req'[u], done'[u], device')
    BY <1>1, <2>1 DEF Serving
  <2> QED  BY <1>3, <2>2, <2>3
<1>6. CASE DeviceAnswers
  <2>1. /\ device.BSY /\ UNCHANGED <<mutex, pc, req, done>>
        /\ \/ /\ device' = [device EXCEPT !.BSY = FALSE, !.DRQ = device.left > 0]
              /\ irq' = (device.cmd.type = "read" \/ device.left < device.cmd.nblocks)
           \/ device' = [device EXCEPT !.BSY = FALSE, !.ERR = TRUE] /\ irq' = TRUE
    BY <1>6 DEF DeviceAnswers
  <2>2. device \in Device
    BY <1>1
  <2>3. (device.left > 0) \in BOOLEAN /\ irq' \in BOOLEAN
    <3>1. (device.left > 0) \in BOOLEAN
      BY <1>1
    <3>2. (device.cmd.type = "read" \/ device.left < device.cmd.nblocks) \in BOOLEAN
      BY Zenon
    <3> QED  BY <2>1, <3>1, <3>2, Zenon
  <2>4. device' \in Device
    BY <2>1, <2>2, <2>3, Zenon DEF Device
  <2>5. Typed'
    BY <1>1, <2>1, <2>3, <2>4 DEF Typed
  <2>6. /\ device'.cmd = device.cmd /\ device'.left = device.left /\ ~device'.BSY
        /\ device'.ERR \/ device'.DRQ \/ ~(device.left > 0)
    BY <2>1, <2>2, Zenon DEF Device
  <2> QED  BY <1>1, <1>3, <2>1, <2>5, <2>6, DeviceServed
<1> QED  BY <1>4, <1>5, <1>6 DEF Requests, Next

\* Every step of the probe keeps the invariant: no thread is in the driver.
LEMMA ProbeKeeps ==
    ASSUME IDEInv, Probe
    PROVE  IDEInv'
<1>1. UNCHANGED rest /\ at # "done"
  BY DEF Probe, SectorCount, reset_controller, ProbeSelect, Signature, Identify,
         Collect, EnableIrq
<1>2. UNCHANGED <<mutex, pc, req, done, alone>> /\ Typed /\ Serving
  BY <1>1 DEF rest, IDEInv
<1>3. \A t \in Thread : pc[t] = "idle"
  BY <1>1 DEF IDEInv, Quiet
<1>4. Serving' /\ Quiet'
  <2>1. alone => \A u \in Thread : Served(pc[u], req[u], done[u], device')
    BY <1>2, <1>3, OthersServed DEF Serving
  <2>2. MutexExcludes'
    BY <1>2, <1>3 DEF MutexExcludes, Using
  <2> QED  BY <1>2, <1>3, <2>1, <2>2 DEF Serving, Quiet
<1>5. irq' \in BOOLEAN
  BY <1>2, TypeFacts, Zenon DEF Probe, SectorCount, reset_controller, ProbeSelect,
                            Signature, Identify, Collect, EnableIrq
<1>6. device' \in Device
  <2>1. Rest \in Device
    BY DEF Rest, Device
  <2>2. CASE reset_controller
    BY <2>1, <2>2, Zenon DEF reset_controller, Device
  <2>3. CASE Signature
    <3>1. device' = device \/ device' = [Rest EXCEPT !.BSY = attached[j] # "none",
                                                    !.cmd = IDENTIFY]
      BY <2>3 DEF Signature, IDENTIFY
    <3> QED  BY <1>2, <2>1, <3>1, TypeFacts, Zenon DEF Device
  <2>4. CASE Collect
    BY <1>2, <2>4, TypeFacts, Zenon DEF Collect, Device
  <2>5. CASE SectorCount \/ ProbeSelect \/ Identify \/ EnableIrq
    BY <1>2, <2>5, TypeFacts DEF SectorCount, ProbeSelect, Identify, EnableIrq
  <2> QED  BY <2>2, <2>3, <2>4, <2>5 DEF Probe
<1>7. Typed'
  BY <1>2, <1>5, <1>6 DEF Typed
<1> QED  BY <1>2, <1>4, <1>7 DEF IDEInv

\* A device that ends its reset, or answers IDENTIFY, late: no request is under way
\* whose answer that could be.
LEMMA LateAnswers ==
    ASSUME IDEInv, ResetEnds \/ IdentifyEnds
    PROVE  IDEInv'
<1>1. /\ UNCHANGED <<rest, probe>> /\ device.BSY
      /\ device.cmd = NoRequest \/ device.cmd.type = "identify"
      /\ irq' = irq \/ irq' = TRUE
  BY Zenon DEF ResetEnds, IdentifyEnds
<1>2. /\ UNCHANGED <<mutex, pc, req, done, alone, at>>
      /\ Typed /\ Serving /\ Quiet /\ alone \in BOOLEAN
  BY <1>1 DEF rest, probe, IDEInv
<1>3. device' \in Device
  <2>1. CASE ResetEnds
    BY <2>1 DEF ResetEnds, Rest, Device
  <2>2. CASE IdentifyEnds
    <3>1. PICK error \in BOOLEAN :
              device' = [device EXCEPT !.BSY = FALSE, !.ERR = error, !.DRQ = ~error]
      BY <2>2, Zenon DEF IdentifyEnds
    <3>2. (~error) \in BOOLEAN
      OBVIOUS
    <3> QED  BY <1>2, <3>1, <3>2, TypeFacts, Zenon DEF Device
  <2> QED  BY <2>1, <2>2
<1>4. device.cmd \notin Request
  BY <1>1 DEF NoRequest, Request
<1>5. Typed'
  BY <1>1, <1>2, <1>3 DEF Typed
<1>6. Serving'
  <2>1. alone => \A u \in Thread : Served(pc'[u], req'[u], done'[u], device')
    BY <1>1, <1>2, <1>4, DeviceServed
  <2> QED  BY <1>2, <2>1 DEF Serving, MutexExcludes, Using
<1>7. Quiet'
  BY <1>2 DEF Quiet
<1> QED  BY <1>2, <1>5, <1>6, <1>7 DEF IDEInv

\* IDEInv is an invariant.
LEMMA IDEInvariance == ProbeSpec => []IDEInv
<1>1. ProbeInit => IDEInv
  <2> SUFFICES ASSUME ProbeInit PROVE IDEInv
    OBVIOUS
  <2>1. Typed
    <3>1. PICK q \in Leftover : mutex = [value |-> 1, queue |-> q]
      BY DEF ProbeInit, Init
    <3>2. q \in Seq(Thread \cup {stray})
      BY IDEAssumption
    <3>3. mutex \in [value : 0..(Word - 1), queue : Seq(Thread \cup {stray})]
      BY <3>1, <3>2 DEF Word
    <3>4. device \in Device /\ irq \in BOOLEAN
      <4>1. /\ device = [BSY |-> FALSE, DRQ |-> FALSE, ERR |-> FALSE,
                         cmd |-> NoRequest, left |-> 0]
            /\ irq = FALSE
        BY DEF ProbeInit, Init
      <4>2. 0 \in Int
        OBVIOUS
      <4> QED  BY <4>1, <4>2, Zenon DEF Device
    <3>5. /\ pc \in [Thread -> Label] /\ req \in [Thread -> Request \cup {NoRequest}]
          /\ done \in [Thread -> Nat]
      BY DEF ProbeInit, Init, Label
    <3> QED  BY <3>3, <3>4, <3>5 DEF Typed
  <2>2. \A t \in Thread : pc[t] = "idle" /\ req[t] = NoRequest
    BY DEF ProbeInit, Init
  <2>3. \A t \in Thread : Served(pc[t], req[t], done[t], device)
    BY <2>2 DEF Served, Issued, NoRequest
  <2>4. MutexExcludes /\ Quiet /\ alone \in BOOLEAN
    BY <2>2 DEF MutexExcludes, Using, Quiet, ProbeInit
  <2> QED  BY <2>1, <2>3, <2>4 DEF IDEInv, Serving
<1>2. IDEInv /\ [ProbeNext]_<<vars, probe, alone>> => IDEInv'
  <2> SUFFICES ASSUME IDEInv, [ProbeNext]_<<vars, probe, alone>> PROVE IDEInv'
    OBVIOUS
  <2>1. CASE Probe \/ ResetEnds \/ IdentifyEnds
    BY <2>1, ProbeKeeps, LateAnswers
  <2>2. CASE Requests
    BY <2>2, RequestsKeep, Zenon
  <2>3. CASE UNCHANGED <<vars, probe, alone>>
    <3>1. UNCHANGED <<mutex, pc, req, done, device, irq, at, alone>>
      BY <2>3 DEF vars, probe
    <3> QED  BY <3>1 DEF IDEInv, Typed, Serving, MutexExcludes, Using, Quiet
  <2> QED  BY <2>1, <2>2, <2>3 DEF ProbeNext, NothingFound
<1> QED  BY <1>1, <1>2, PTL DEF ProbeSpec

\* As long as one thread at a time has used the controller, the first block a read
\* copies from the data register is the one it asked for, and the device has it
\* ready: the status that ide_read_write_blocks waits for before ksema_down settles
\* that, not the interrupt, which may be a stale one.
THEOREM ReadsAreFresh == ProbeSpec => []ReadFresh
<1>1. ASSUME IDEInv, alone, NEW t \in Thread, pc[t] = "data_in", done[t] = 0
      PROVE  device.DRQ /\ device.cmd.type = "read" /\ Presented = req[t].block
  <2>1. Served(pc[t], req[t], done[t], device) /\ Typed
    BY <1>1 DEF IDEInv, Serving
  <2>2. /\ req[t] \in Request /\ device.cmd = req[t] /\ req[t].type = "read"
        /\ device.left = req[t].nblocks /\ Ready(device) /\ ~device.ERR
    BY <1>1, <2>1 DEF Served, Issued
  <2>3. req[t].block \in Nat /\ req[t].nblocks \in Nat
    BY <2>2, IDEAssumption DEF Request
  <2> QED  BY <2>2, <2>3 DEF Ready, Presented
<1>2. IDEInv => ReadFresh
  BY <1>1 DEF ReadFresh, FirstBlockReady
<1> QED  BY <1>2, IDEInvariance, PTL
-----------------------------------------------------------------------------
\* The threads in the controller.
Users(p) == {t \in Thread : p[t] \notin {"idle", "lock"}}

\* A thread that enters makes one more, one that leaves one less.
LEMMA UsersChange ==
    ASSUME NEW p \in [Thread -> Label], NEW t \in Thread, NEW m \in Label
    PROVE  LET q == [p EXCEPT ![t] = m]
               out(l) == l \in {"idle", "lock"}
           IN  /\ Cardinality(Users(p)) \in Nat /\ Cardinality(Users(q)) \in Nat
               /\ out(p[t]) = out(m) => Cardinality(Users(q)) = Cardinality(Users(p))
               /\ out(p[t]) /\ ~out(m) => Cardinality(Users(q)) = Cardinality(Users(p)) + 1
               /\ ~out(p[t]) /\ out(m) => Cardinality(Users(q)) = Cardinality(Users(p)) - 1
<1> DEFINE q == [p EXCEPT ![t] = m]
<1>1. IsFiniteSet(Users(p)) /\ IsFiniteSet(Users(q))
  BY IDEAssumption, FS_Subset, Zenon DEF Users
<1>2. Cardinality(Users(p)) \in Nat /\ Cardinality(Users(q)) \in Nat
  BY <1>1, FS_CardinalityType
<1>3. CASE p[t] \in {"idle", "lock"} /\ m \notin {"idle", "lock"}
  <2>1. Users(q) = Users(p) \cup {t} /\ t \notin Users(p)
    BY <1>3 DEF Users
  <2> QED  BY <1>1, <1>2, <1>3, <2>1, FS_AddElement
<1>4. CASE p[t] \notin {"idle", "lock"} /\ m \in {"idle", "lock"}
  <2>1. Users(q) = Users(p) \ {t} /\ t \in Users(p)
    BY <1>4 DEF Users
  <2> QED  BY <1>1, <1>2, <1>4, <2>1, FS_RemoveElement
<1>5. CASE (p[t] \in {"idle", "lock"}) = (m \in {"idle", "lock"})
  <2>1. Users(q) = Users(p)
    BY <1>5 DEF Users
  <2> QED  BY <1>2, <1>5, <2>1
<1> QED  BY <1>3, <1>4, <1>5

\* ide_read_write_blocks takes and gives back the unit of the mutex in pairs: its
\* value and the threads in the controller add up to one, for any number of threads,
\* also when threads overtake the one that kmutex_unlock has woken and the value
\* wraps around.
THEOREM MutexUnitsBalance == ProbeSpec => []UnitsBalanced
<1> DEFINE Balanced(v, p) == (v + Cardinality(Users(p))) % 8 = 1
<1>1. UnitsBalanced <=> Balanced(mutex.value, pc)
  BY DEF UnitsBalanced, Users, Using, Word
<1>2. ProbeInit => UnitsBalanced
  <2> SUFFICES ASSUME ProbeInit PROVE UnitsBalanced
    OBVIOUS
  <2>1. mutex.value = 1
    BY DEF ProbeInit, Init
  <2>2. Users(pc) = {}
    BY DEF ProbeInit, Init, Users
  <2> QED  BY <1>1, <2>1, <2>2, FS_EmptySet
<1>3. Typed /\ UnitsBalanced /\ [ProbeNext]_<<vars, probe, alone>> => UnitsBalanced'
  <2> SUFFICES ASSUME Typed, UnitsBalanced, [ProbeNext]_<<vars, probe, alone>>
               PROVE  UnitsBalanced'
    OBVIOUS
  <2>1. Balanced(mutex.value, pc) /\ mutex.value \in 0..7 /\ pc \in [Thread -> Label]
    BY <1>1, TypeFacts DEF Typed
  <2>2. ASSUME Balanced(mutex'.value, pc') PROVE UnitsBalanced'
    BY <2>2 DEF UnitsBalanced, Users, Using, Word
  <2>3. ASSUME UNCHANGED <<mutex, pc>> PROVE UnitsBalanced'
    BY <2>1, <2>2, <2>3
  <2>4. ASSUME NEW t \in Thread, Lock(t) \/ Step(t) PROVE UnitsBalanced'
    <3> DEFINE c == Cardinality(Users(pc))
               out(l) == l \in {"idle", "lock"}
    <3>1. c \in Nat
      BY <2>1, <2>4, UsersChange
    <3>2. ASSUME NEW m \in Label, Goto(t, m), out(pc[t]) = out(m), mutex'.value = mutex.value
          PROVE  UnitsBalanced'
      <4>1. Cardinality(Users(pc')) = c
        BY <2>1, <3>2, UsersChange DEF Goto
      <4> QED  BY <2>1, <2>2, <3>2, <4>1
    <3>3. ASSUME NEW m \in Label, Goto(t, m), out(pc[t]), ~out(m),
                 mutex'.value = (mutex.value + 7) % 8
          PROVE  UnitsBalanced'
      <4>1. Cardinality(Users(pc')) = c + 1
        BY <2>1, <3>3, UsersChange DEF Goto
      <4>2. (((mutex.value + 7) % 8) + (c + 1)) % 8 = (mutex.value + c) % 8
        BY <2>1, <3>1
      <4> QED  BY <2>1, <2>2, <3>3, <4>1, <4>2
    <3>4. CASE Lock(t)
      <4>1. /\ pc[t] = "idle" /\ mutex' = ksema_down(mutex, t, "select", "lock").sem
            /\ Goto(t, ksema_down(mutex, t, "select", "lock").label)
        BY <3>4 DEF Lock
      <4>2. CASE mutex.value = 0
        <5>1. Goto(t, "lock") /\ mutex'.value = mutex.value
          BY <4>1, <4>2 DEF ksema_down, Typed
        <5> QED  BY <3>2, <4>1, <5>1 DEF Label
      <4>3. CASE mutex.value # 0
        <5>1. Goto(t, "select") /\ mutex'.value = mutex.value - 1
          BY <4>1, <4>3 DEF ksema_down, Typed
        <5>2. mutex.value - 1 = (mutex.value + 7) % 8
          BY <2>1, <4>3
        <5> QED  BY <3>3, <4>1, <5>1, <5>2 DEF Label
      <4> QED  BY <4>2, <4>3
    <3>5. CASE Locked(t)
      <4>1. pc[t] = "lock" /\ Goto(t, "select") /\ mutex'.value = (mutex.value + 7) % 8
        BY <2>1, <3>5 DEF Locked, ksema_resume, Word, Typed
      <4> QED  BY <3>3, <4>1 DEF Label
    <3>6. CASE Unlock(t)
      <4>1. pc[t] = "unlock" /\ Goto(t, "idle") /\ mutex'.value = (mutex.value + 1) % 8
        BY <3>6 DEF Unlock, ksema_up, Word
      <4>2. Cardinality(Users(pc')) = c - 1 /\ Cardinality(Users(pc')) \in Nat
        BY <2>1, <4>1, UsersChange DEF Goto, Label
      <4>3. (((mutex.value + 1) % 8) + (c - 1)) % 8 = (mutex.value + c) % 8
        BY <2>1, <3>1, <4>2
      <4> QED  BY <2>1, <2>2, <4>1, <4>2, <4>3
    <3>7. CASE Select(t) \/ Command(t) \/ Poll(t) \/ Check(t)
      <4>1. /\ \E m \in Label : Goto(t, m) /\ ~out(m)
            /\ ~out(pc[t]) /\ mutex' = mutex
        BY <3>7 DEF Select, Command, Poll, Check, Label
      <4> QED  BY <3>2, <4>1
    <3>8. CASE Down(t) \/ Resumed(t)
      <4>1. ksema_down(io_sema, t, "check", "wait").label \in {"check", "wait"}
        BY DEF ksema_down
      <4>2. \E m \in {"check", "wait"} : Goto(t, m)
        BY <3>8, <4>1, Zenon DEF Down, Resumed
      <4>3. pc[t] \in {"down", "wait"} /\ mutex' = mutex
        BY <3>8, Zenon DEF Down, Resumed
      <4> QED  BY <3>2, <4>2, <4>3 DEF Label
    <3>9. CASE DataOut(t) \/ DataIn(t)
      <4>1. PICK then \in {"down", "unlock"} :
                Copy(t, then) /\ pc[t] \in {"data_out", "data_in"}
        BY <3>9 DEF DataOut, DataIn
      <4>2. \E m \in {then, pc[t]} : Goto(t, m)
        BY <4>1 DEF Copy
      <4>3. mutex' = mutex
        BY <4>1 DEF Copy
      <4> QED  BY <3>2, <4>1, <4>2, <4>3 DEF Label
    <3> QED  BY <2>4, <3>4, <3>5, <3>6, <3>7, <3>8, <3>9 DEF Step
  <2>5. CASE Requests
    BY <2>3, <2>4, <2>5 DEF Requests, Next, Interrupt, DeviceAnswers
  <2>6. CASE Probe \/ ResetEnds \/ IdentifyEnds
    <3>1. UNCHANGED rest
      BY <2>6, Zenon DEF Probe, SectorCount, reset_controller, ProbeSelect, Signature,
                   Identify, Collect, EnableIrq, ResetEnds, IdentifyEnds
    <3> QED  BY <2>3, <3>1 DEF rest
  <2>7. CASE UNCHANGED <<vars, probe, alone>>
    BY <2>3, <2>7 DEF vars
  <2> QED  BY <2>5, <2>6, <2>7 DEF ProbeNext, NothingFound
<1>4. IDEInv => Typed
  BY DEF IDEInv
<1> QED  BY <1>2, <1>3, <1>4, IDEInvariance, PTL DEF ProbeSpec
-----------------------------------------------------------------------------
\* ProbeInv is an invariant.
LEMMA ProbeInvariance == ProbeSpec => []ProbeInv
<1>1. ProbeInit => ProbeInv
  BY DEF ProbeInit, Init, ProbeInv, Position, DisksAreReal
<1>2. ProbeInv /\ [ProbeNext]_<<vars, probe, alone>> => ProbeInv'
  <2> SUFFICES ASSUME ProbeInv, [ProbeNext]_<<vars, probe, alone>> PROVE ProbeInv'
    OBVIOUS
  <2>1. attached # NULL => /\ attached[j] \in {"ata", "atapi", "none"} /\ j \in Position
    BY CablingAssumption DEF ProbeInv
  <2>2. ASSUME UNCHANGED <<attached, info, registered>>, j' \in Position,
               at' \in {"sector_count", "reset", "select", "signature", "irq", "done"},
               at' \in {"reset", "select", "signature"} => attached # NULL
        PROVE  ProbeInv'
    BY <2>2 DEF ProbeInv, DisksAreReal
  <2>3. ASSUME Continue
        PROVE  j' \in Position /\ at' \in {"sector_count", "irq"}
    BY <2>3 DEF Continue, ProbeInv, Position
  <2>4. CASE SectorCount
    BY <2>2, <2>3, <2>4 DEF SectorCount, ProbeInv
  <2>5. CASE reset_controller
    BY <2>2, <2>5 DEF reset_controller, ProbeInv, seen
  <2>6. CASE ProbeSelect
    BY <2>2, <2>3, <2>6 DEF ProbeSelect, ProbeInv, seen
  <2>7. CASE EnableIrq
    BY <2>2, <2>7 DEF EnableIrq, ProbeInv, seen
  <2>8. CASE Signature
    <3>1. UNCHANGED <<attached, info, registered>> /\ attached # NULL
      <4>1. at = "signature" /\ UNCHANGED <<attached, info, registered>>
        BY <2>8, Zenon DEF Signature
      <4>2. attached # NULL
        BY <4>1, Zenon DEF ProbeInv
      <4> QED  BY <4>1, <4>2, Zenon
    <3>2. PICK s \in Signatures(j) :
              IF s = "none"
              THEN Continue /\ UNCHANGED <<present, atapi, device>>
              ELSE /\ present' = present \cup {j}
                   /\ atapi' = IF s = "atapi" THEN atapi \cup {j} ELSE atapi
                   /\ device' = [Rest EXCEPT !.BSY = attached[j] # "none", !.cmd = IDENTIFY]
                   /\ at' = "wait" /\ j' = j
      BY <2>8 DEF Signature, IDENTIFY
    <3>3. CASE s = "none"
      BY <2>2, <2>3, <3>1, <3>2, <3>3
    <3>4. CASE s # "none"
      <4>1. /\ at' = "wait" /\ j' = j /\ ~device'.DRQ
            /\ attached[j] = "none" => ~device'.BSY
        BY <3>2, <3>4, Zenon DEF Rest
      <4>2. j \notin atapi' => attached[j] = "ata"
        BY <2>1, <3>1, <3>2, <3>4 DEF Signatures
      <4> QED  BY <3>1, <4>1, <4>2 DEF ProbeInv, DisksAreReal
    <3> QED  BY <3>3, <3>4
  <2>9. CASE Identify
    <3>1. UNCHANGED <<device, attached, atapi, info, registered>> /\ at = "wait"
      BY <2>9 DEF Identify
    <3>2. CASE Continue
      BY <2>2, <2>3, <3>1, <3>2
    <3>3. CASE at' = "collect" /\ j' = j /\ ~device.BSY /\ device.DRQ
      BY <3>1, <3>3 DEF ProbeInv, DisksAreReal
    <3> QED  BY <2>9, <3>2, <3>3, Zenon DEF Identify, Identified, wait_for_controller
  <2>10. CASE Collect
    <3>1. /\ device.DRQ /\ at = "collect" /\ attached # NULL
          /\ j \notin atapi => attached[j] = "ata"
      BY <2>10 DEF Collect, ProbeInv
    <3>2. /\ info' = [info EXCEPT ![j] = attached[j]]
          /\ registered' = IF j \in atapi THEN registered ELSE registered \cup {j}
          /\ Continue /\ UNCHANGED <<attached, atapi>>
      BY <2>10, <3>1 DEF Collect
    <3>3. DisksAreReal' /\ info' \in [Position -> {"ata", "atapi", "none", NULL}]
      BY <2>1, <3>1, <3>2, SMTT(60) DEF ProbeInv, DisksAreReal
    <3> QED  BY <2>3, <3>2, <3>3 DEF ProbeInv
  <2>11. CASE ResetEnds \/ IdentifyEnds
    <3>1. /\ UNCHANGED <<attached, at, j, atapi, info, registered>> /\ device.BSY
      BY <2>11, Zenon DEF ResetEnds, IdentifyEnds, probe, seen
    <3> QED  BY <3>1 DEF ProbeInv, DisksAreReal
  <2>12. CASE Requests
    <3>1. UNCHANGED <<attached, at, j, atapi, info, registered>> /\ at = "done"
      BY <2>12 DEF Requests, probe, seen
    <3> QED  BY <3>1 DEF ProbeInv, DisksAreReal
  <2>13. CASE UNCHANGED <<vars, probe, alone>>
    <3>1. UNCHANGED <<attached, at, j, atapi, info, registered, device>>
      BY <2>13 DEF vars, probe, seen
    <3> QED  BY <3>1 DEF ProbeInv, DisksAreReal
  <2> QED  BY <2>4, <2>5, <2>6, <2>7, <2>8, <2>9, <2>10, <2>11, <2>12, <2>13
           DEF ProbeNext, Probe, NothingFound
<1> QED  BY <1>1, <1>2, PTL DEF ProbeSpec

\* identify_ide_device registers a minor number only for a disk that is there, with
\* the size that disk reports: for any two devices at the positions, however slow
\* and faulty, and also when one answers for the other.
THEOREM RegisteredDisksAreReal == ProbeSpec => []DisksAreReal
<1>1. ProbeInv => DisksAreReal
  BY DEF ProbeInv
<1> QED  BY <1>1, ProbeInvariance, PTL
=============================================================================
