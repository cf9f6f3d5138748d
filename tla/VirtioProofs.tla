----------------------------- MODULE VirtioProofs -----------------------------
(***************************************************************************)
(* Proofs about the virtio-sound driver, for every set of queue sizes and  *)
(* every width of the ring indices, on a device that finds cleared rings.  *)
(***************************************************************************)
EXTENDS Virtio, TLAPS

\* Leaves are for Zenon unless they name SMT, which those with arithmetic do.
USE ZenonT(40)

\* The two descriptors of a command that starts at head are in place.
Placed(head) ==
  size[Control] > 1 => /\ desc[Control][head] = "command"
                       /\ desc[Control][Second(head, size[Control])] = "answer"

\* A command is with the device, or about to be shown to it.
Busy == pc \in {"notify", "wait"} /\ Sent # "audio"
Ready == pc = "publish" /\ Sent # "audio"

\* Nothing is under way on the control queue: all its indices agree.
Idle0 ==
  /\ avail[Control] = last_used[Control] /\ seen[Control] = last_used[Control]
  /\ done[Control] = last_used[Control] /\ held[Control] = None

\* One command is: the device has not looked at it, works on it or has answered it.
Under0 ==
  /\ avail[Control] = Inc(last_used[Control])
  /\ dma = Sent
  /\ Placed(Head0)
  /\ \/ /\ seen[Control] = last_used[Control] /\ held[Control] = None
        /\ done[Control] = last_used[Control]
     \/ /\ seen[Control] = avail[Control] /\ held[Control] = Sent
        /\ done[Control] = last_used[Control]
     \/ /\ seen[Control] = avail[Control] /\ held[Control] = None
        /\ done[Control] = avail[Control] /\ resp = Sent

IInv ==
  /\ TypeOK
  /\ used[Control] = done[Control]
  /\ live => size[Control] # 0
  /\ CommandsDoNotFault
  /\ pc = "boot" => avail[Control] = 0 /\ \A q \in Queues : next_avail[q] = 0
  /\ pc = "wait" => Sent # "audio"
  /\ pc \in {"publish", "notify", "wait"} => size[Queue] # 0
  /\ ~Busy => Idle0
  /\ Busy => Under0
  /\ Ready => /\ dma = Sent /\ Placed(next_avail[Control])
              /\ ring[Control][avail[Control] % size[Control]] = next_avail[Control]
-------------------------------------------------------------------------------
(* Indices and requests *)

\* The remainder by the size of a queue is a place in its ring.
LEMMA ModRange ==
  ASSUME NEW a \in Nat, NEW n \in Nat \ {0}
  PROVE  a % n \in 0 .. n - 1
BY SMTT(30)

\* A ring index that is incremented differs from what it was, and the one before
\* it is what it was, also when it wraps.
LEMMA IncDec ==
  ASSUME NEW i \in Idx
  PROVE  Inc(i) \in Idx /\ Inc(i) # i /\ Dec(Inc(i)) = i /\ Dec(i) \in Idx
BY IdxAssumption, SMTT(30) DEF Idx, Inc, Dec

\* A size is a natural number up to MaxSize.
LEMMA SizeRange ==
  ASSUME TypeOK, NEW q \in Queues
  PROVE  size[q] \in 0 .. MaxSize /\ MaxSize \in Nat
<1>1. size \in [Queues -> Sizes \cup {0}]
  BY DEF TypeOK
<1>2. MaxSize \in Nat /\ Sizes \subseteq 0 .. MaxSize
  BY SizeAssumption
<1>3. size[q] \in Sizes \cup {0} /\ 0 \in 0 .. MaxSize
  BY <1>1, <1>2, SMTT(30)
<1> QED
  BY <1>2, <1>3

\* Of what is sent, everything but the samples is a command on the control queue.
LEMMA SentRange ==
  ASSUME TypeOK
  PROVE  /\ Sent \in Payloads /\ Queue \in Queues
         /\ Sent # "audio" => Sent \in Commands /\ Queue = Control
         /\ Sent = "audio" => Queue = Playback
<1>1. stage \in Stages
  BY DEF TypeOK
<1> QED
  BY <1>1 DEF Sent, Payloads, Commands, Queue, Queues, Control, Playback

\* The script has six requests.
LEMMA ScriptLength == Len(Script) = 6 /\ Stages = 1 .. 6
BY DEF Script, Stages
-------------------------------------------------------------------------------
(* Every step keeps the invariant *)

\* The state the kernel boots in.
LEMMA InitIInv == Init => IInv
<1> SUFFICES ASSUME Init PROVE IInv
  OBVIOUS
<1>0. 0 \in Idx /\ 0 \in 0 .. MaxSize /\ 1 \in Stages
  BY IdxAssumption, SizeAssumption, ScriptLength, SMTT(30) DEF Idx
<1>1. TypeOK
  BY <1>0 DEF Init, TypeOK
<1>2. Idle0 /\ ~Busy /\ ~Ready
  BY DEF Init, Idle0, Busy, Ready, Queues, Control
<1> QED
  BY <1>1, <1>2 DEF Init, IInv, CommandsDoNotFault, Queues, Control

\* Boot: with cleared rings, both indices of the control queue start at 0.
LEMMA BootKeepsIInv ==
  ASSUME Fresh = {0}, IInv, BootFails \/ BootDone
  PROVE  IInv'
<1>0. /\ pc = "boot" /\ pc' = "shell" /\ ~Busy /\ ~Busy' /\ ~Ready' /\ Idle0
      /\ avail[Control] = 0 /\ \A q \in Queues : next_avail[q] = 0
  BY DEF IInv, BootFails, BootDone, Busy, Ready
<1>1. CASE BootFails
  <2>1. TypeOK'
    BY <1>1 DEF IInv, TypeOK, BootFails, setup, driver, device
  <2> QED
    BY <1>0, <1>1, <2>1 DEF IInv, BootFails, setup, driver, device, CommandsDoNotFault,
                            Idle0
<1>2. CASE BootDone
  <2>0. Control \in Queues
    BY DEF Control, Queues
  <2>1. /\ size' \in [Queues -> Sizes] /\ size'[Control] # 0
        /\ avail' \in [Queues -> {0}] /\ used' \in [Queues -> {0}]
        /\ UNCHANGED <<stage, wiring, next_avail, last_used, desc, ring, dma, reply, resp,
                       notified, seen, done, held>>
    BY <1>2 DEF BootDone, device, HasControlQueue
  <2>2. avail' \in [Queues -> Idx] /\ used' \in [Queues -> Idx]
    BY <2>1, IdxAssumption DEF Idx
  <2>3. TypeOK'
    BY <1>0, <1>2, <2>1, <2>2 DEF IInv, TypeOK, BootDone
  <2>4. Idle0' /\ used'[Control] = done'[Control]
    BY <1>0, <2>0, <2>1 DEF Idle0
  <2> QED
    BY <1>0, <2>1, <2>3, <2>4 DEF IInv, CommandsDoNotFault
<1> QED
  BY <1>1, <1>2

\* A step of the driver after which no request is under way leaves the queue idle.
LEMMA IdleKeepsIInv ==
  ASSUME IInv, TypeOK', Idle0', pc' \notin {"boot", "publish", "notify", "wait"},
         pc' = "fault" => Sent' = "audio" \/ ~live,
         UNCHANGED <<live, size, used, done>>
  PROVE  IInv'
BY DEF IInv, CommandsDoNotFault, Busy, Ready

\* vsbeep starts.
LEMMA BeepKeepsIInv == ASSUME IInv, Beep PROVE IInv'
<1>1. 1 \in Stages
  BY ScriptLength, SMTT(30)
<1>2. TypeOK'
  BY <1>1 DEF Beep, IInv, TypeOK, setup, driver, device
<1>3. Idle0'
  BY DEF Beep, IInv, Idle0, Busy, driver, device
<1> QED
  BY <1>2, <1>3, IdleKeepsIInv DEF Beep, setup, device

\* Filling dma_buffer and the descriptors: nothing is with the device.
LEMMA FillKeepsIInv == ASSUME IInv, Fill PROVE IInv'
<1> DEFINE head == next_avail[Queue]
           n == size[Queue]
           slot == avail[Queue] % n
<1>0. /\ Queue \in Queues /\ Control \in Queues /\ Playback \in Queues
      /\ Control # Playback /\ Sent \in Payloads
      /\ (Sent # "audio") <=> (Queue = Control)
  BY SentRange, SMTT(30) DEF IInv, Queues, Control, Playback, Queue
<1>1. n \in 1 .. MaxSize /\ MaxSize \in Nat
  BY <1>0, SizeRange, SMTT(30) DEF Fill, IInv
<1>2. head \in 0 .. n - 1 /\ head \in 0 .. MaxSize
  <2>1. head \in 0 .. MaxSize /\ (head = 0 \/ head < n)
    BY <1>0 DEF IInv, TypeOK
  <2> HIDE DEF head, n
  <2> QED BY <1>1, <2>1, SMTT(30)
<1>3. slot \in 0 .. MaxSize
  <2>1. avail[Queue] \in Nat
    BY <1>0, IdxAssumption, SMTT(30) DEF IInv, TypeOK, Idx
  <2>2. slot \in 0 .. n - 1
    <3> HIDE DEF n
    <3>1. n \in Nat \ {0} BY <1>1, SMTT(30)
    <3> QED BY <2>1, <3>1, ModRange
  <2> HIDE DEF slot, n
  <2> QED BY <1>1, <2>2, SMTT(30)
<1>4. Second(head, n) \in 0 .. MaxSize /\ (n > 1 => Second(head, n) # head)
  <2> HIDE DEF head, n
  <2>1. Second(head, n) \in 0 .. n - 1
    <3>1. n \in Nat \ {0} /\ head + 1 \in Nat BY <1>1, <1>2, SMTT(30)
    <3> QED BY <3>1, ModRange DEF Second
  <2>2. CASE head + 1 < n
    <3>1. (head + 1) % n = head + 1
      BY <1>1, <1>2, <2>2, SMTT(30)
    <3> QED BY <1>1, <1>2, <2>1, <3>1, SMTT(30) DEF Second
  <2>3. CASE head + 1 = n
    <3>1. n % n = 0
      BY <1>1, SMTT(30)
    <3> QED BY <1>1, <1>2, <2>1, <2>3, <3>1, SMTT(30) DEF Second
  <2> QED BY <1>1, <1>2, <2>1, <2>2, <2>3, SMTT(30)
<1>5. Describe(desc[Queue], head, n) \in [0 .. MaxSize -> {None, "command", "answer", "audio"}]
  BY <1>0, <1>2, <1>4 DEF Describe, IInv, TypeOK
<1>6. desc' \in [Queues -> [0 .. MaxSize -> {None, "command", "answer", "audio"}]]
  BY <1>0, <1>5 DEF Fill, IInv, TypeOK
<1>7. ring' \in [Queues -> [0 .. MaxSize -> 0 .. MaxSize]]
  BY <1>0, <1>2, <1>3 DEF Fill, IInv, TypeOK
<1>8. TypeOK'
  BY <1>0, <1>6, <1>7 DEF Fill, IInv, TypeOK, setup, device
<1>9. Idle0'
  BY DEF Fill, IInv, Idle0, Busy, device
<1>10. pc = "fill" /\ pc' = "publish" /\ Sent' = Sent /\ Queue' = Queue /\ size'[Queue'] # 0
  BY DEF Fill, Sent, Queue, setup
<1>11. ~Busy'
  BY <1>10 DEF Busy
<1>12. ASSUME Sent # "audio"
       PROVE  /\ dma' = Sent' /\ Placed(next_avail[Control])'
              /\ ring'[Control][avail'[Control] % size'[Control]] = next_avail'[Control]
  <2>0. Queue = Control
    BY <1>0, <1>12
  <2>1. /\ dma' = Sent' /\ size' = size /\ next_avail' = next_avail /\ avail' = avail
        /\ desc' = [desc EXCEPT ![Control] = Describe(desc[Control], head, n)]
        /\ ring' = [ring EXCEPT ![Control][slot] = head]
    BY <1>10, <2>0 DEF Fill, setup
  <2>2. desc'[Control] = [desc[Control] EXCEPT ![head] = "command", ![Second(head, n)] = "answer"]
    BY <1>0, <1>12, <2>1 DEF Describe, IInv, TypeOK
  <2>3. desc[Control] \in [0 .. MaxSize -> {None, "command", "answer", "audio"}]
    BY <1>0 DEF IInv, TypeOK
  <2>4. n > 1 => desc'[Control][head] = "command" /\ desc'[Control][Second(head, n)] = "answer"
    BY <1>1, <1>2, <1>4, <2>2, <2>3
  <2>5. ring'[Control][slot] = head
    BY <1>0, <1>3, <2>1 DEF IInv, TypeOK
  <2> QED
    BY <2>0, <2>1, <2>4, <2>5 DEF Placed, Second
<1>13. /\ used'[Control] = done'[Control] /\ (live' => size'[Control] # 0)
       /\ CommandsDoNotFault'
  BY <1>10 DEF Fill, IInv, setup, device, CommandsDoNotFault
<1> QED
  BY <1>8, <1>9, <1>10, <1>11, <1>12, <1>13 DEF IInv, Ready

\* The division by the size of a missing queue.
LEMMA FaultKeepsIInv == ASSUME IInv, FillFaults PROVE IInv'
<1>1. Sent \in Payloads /\ Sent' = Sent /\ (Sent # "audio" => Queue = Control)
  BY SentRange DEF IInv, FillFaults, Sent
<1>2. desc' \in [Queues -> [0 .. MaxSize -> {None, "command", "answer", "audio"}]]
  <2>1. Queue \in Queues /\ next_avail \in [Queues -> 0 .. MaxSize]
    BY SentRange DEF IInv, TypeOK
  <2>2. desc \in [Queues -> [0 .. MaxSize -> {None, "command", "answer", "audio"}]]
    BY DEF IInv, TypeOK
  <2>3. \/ desc' = desc
        \/ desc' = [desc EXCEPT ![Queue][next_avail[Queue]] = "audio"]
    BY DEF FillFaults
  <2>4. [desc[Queue] EXCEPT ![next_avail[Queue]] = "audio"]
          \in [0 .. MaxSize -> {None, "command", "answer", "audio"}]
    BY <2>1, <2>2
  <2> QED
    BY <2>1, <2>2, <2>3, <2>4
<1>3. resp' \in Commands \cup {None}
  BY DEF FillFaults, IInv, TypeOK
<1>4. TypeOK'
  BY <1>1, <1>2, <1>3 DEF FillFaults, IInv, TypeOK, setup, device
<1>5. Idle0'
  BY DEF FillFaults, IInv, Idle0, Busy, device
<1>6. Sent' = "audio" \/ ~live
  BY <1>1 DEF FillFaults, IInv
<1> QED
  BY <1>4, <1>5, <1>6, IdleKeepsIInv DEF FillFaults, setup, device

\* A request is shown to the device.
LEMMA PublishKeepsIInv == ASSUME IInv, Publish PROVE IInv'
<1> DEFINE n == size[Queue]
<1>0. /\ Queue \in Queues /\ Control \in Queues
      /\ (Sent # "audio") <=> (Queue = Control)
      /\ Sent' = Sent /\ Queue' = Queue
      /\ pc = "publish" /\ pc' = "notify" /\ size[Queue] # 0 /\ size' = size
  BY SentRange, SMTT(30) DEF IInv, Queues, Control, Playback, Queue, Publish, Sent, setup
<1>1. n \in 1 .. MaxSize /\ MaxSize \in Nat
  BY <1>0, SizeRange, SMTT(30) DEF IInv
<1>2. NextFree(next_avail[Queue], n) \in 0 .. n - 1
  <2>1. next_avail[Queue] \in Nat /\ n \in Nat \ {0}
    BY <1>0, <1>1, SMTT(30) DEF IInv, TypeOK
  <2> HIDE DEF n
  <2>2. Second(next_avail[Queue], n) \in Nat
    BY <2>1, ModRange, SMTT(30) DEF Second
  <2> DEFINE after == IF Sent = "audio" THEN next_avail[Queue] + 1
                      ELSE Second(next_avail[Queue], n) + 1
  <2>3. after \in Nat
    BY <2>1, <2>2, SMTT(30)
  <2>4. after % n \in 0 .. n - 1
    <3> HIDE DEF after
    <3> QED BY <2>1, <2>3, ModRange
  <2> QED BY <2>4 DEF NextFree
<1>3. next_avail' \in [Queues -> 0 .. MaxSize]
  <2>1. NextFree(next_avail[Queue], n) \in 0 .. MaxSize
    <3> HIDE DEF n
    <3> QED BY <1>1, <1>2, SMTT(30)
  <2> QED BY <1>0, <2>1 DEF Publish, IInv, TypeOK
<1>4. \A q \in Queues : next_avail'[q] = 0 \/ next_avail'[q] < size'[q]
  <2> SUFFICES ASSUME NEW q \in Queues
               PROVE  next_avail'[q] = 0 \/ next_avail'[q] < size[q]
    BY <1>0
  <2>1. CASE q = Queue
    <3>1. next_avail'[q] = NextFree(next_avail[Queue], n)
      BY <1>0, <2>1 DEF Publish, IInv, TypeOK
    <3> QED BY <1>1, <1>2, <2>1, <3>1, SMTT(30)
  <2>2. CASE q # Queue
    BY <1>0, <2>2 DEF Publish, IInv, TypeOK
  <2> QED BY <2>1, <2>2
<1>5. avail' = [avail EXCEPT ![Queue] = Inc(avail[Queue])] /\ avail \in [Queues -> Idx]
  BY DEF Publish, IInv, TypeOK
<1>6. avail' \in [Queues -> Idx]
  BY <1>0, <1>5, IncDec
<1>7. TypeOK'
  BY <1>3, <1>4, <1>6 DEF Publish, IInv, TypeOK, setup, device
<1>8. CASE Sent = "audio"
  <2>1. Idle0'
    BY <1>0, <1>5, <1>8 DEF Publish, IInv, Idle0, Busy, device
  <2> QED
    BY <1>0, <1>7, <1>8, <2>1
    DEF Publish, IInv, Busy, Ready, CommandsDoNotFault, setup, device
<1>9. CASE Sent # "audio"
  <2>1. /\ avail'[Control] = Inc(avail[Control]) /\ avail[Control] \in Idx
        /\ desc' = desc /\ ring' = ring /\ dma' = dma
        /\ UNCHANGED <<last_used, seen, done, held, used, live>>
    BY <1>0, <1>5, <1>9 DEF Publish, device, setup
  <2>2. Idle0 /\ dma = Sent /\ Placed(next_avail[Control])
        /\ ring[Control][avail[Control] % size[Control]] = next_avail[Control]
    BY <1>0, <1>9 DEF IInv, Busy, Ready
  <2>3. Head0' = next_avail[Control]
    BY <1>0, <2>1, <2>2, IncDec DEF Head0
  <2>4. Placed(Head0)'
    <3>1. Placed(Head0)' <=>
            (size[Control] > 1 => /\ desc[Control][Head0'] = "command"
                                  /\ desc[Control][Second(Head0', size[Control])] = "answer")
      BY <1>0, <2>1 DEF Placed, Second
    <3> QED BY <2>2, <2>3, <3>1 DEF Placed
  <2>5. Under0'
    BY <1>0, <2>1, <2>2, <2>4 DEF Under0, Idle0
  <2> QED
    BY <1>0, <1>7, <1>9, <2>1, <2>5 DEF IInv, Busy, Ready, CommandsDoNotFault
<1> QED
  BY <1>8, <1>9

\* notify_queue(): what the device is told changes nothing else.
LEMMA NotifyKeepsIInv == ASSUME IInv, Notify PROVE IInv'
<1>0. /\ Sent' = Sent /\ Queue' = Queue /\ size' = size /\ pc = "notify"
      /\ Queue \in Queues /\ pc' \in {"playing", "wait"}
      /\ (pc' = "wait" <=> Sent # "audio")
  BY SentRange DEF IInv, Notify, Sent, Queue, setup
<1>1. Target(Queue) \in Queues
  BY <1>0 DEF Target, Queues, Control, Playback, IInv, TypeOK, Wirings
<1>2. TypeOK'
  BY <1>0, <1>1 DEF Notify, IInv, TypeOK, setup, driver
<1>3. /\ Busy' <=> Busy
      /\ Idle0' <=> Idle0
      /\ Under0' <=> Under0
      /\ ~Ready'
  BY <1>0 DEF Notify, Busy, Ready, Idle0, Under0, driver, Placed, Head0, Second
<1> QED
  BY <1>0, <1>2, <1>3 DEF IInv, Notify, setup, driver, CommandsDoNotFault

\* The next request of the script.
LEMMA AdvanceRange ==
  ASSUME TypeOK, Advance
  PROVE  stage' \in Stages /\ pc' \in {"shell", "fill"}
BY ScriptLength, SMTT(30) DEF TypeOK, Advance

\* The poll ends only when the device has returned the command: its answer is
\* that of the command just sent.
LEMMA AnsweredBySent == ASSUME IInv, pc = "wait", Answered PROVE
         /\ Under0 /\ done[Control] = avail[Control] /\ seen[Control] = avail[Control]
         /\ held[Control] = None /\ resp = Sent
<1>1. Under0
  BY DEF IInv, Busy
<1> QED
  BY <1>1 DEF Under0, IInv, Answered

\* virtq_send_command_sync() returns.
LEMMA ReceiveKeepsIInv == ASSUME IInv, Receive PROVE IInv'
<1>0. Control \in Queues
  BY DEF Control, Queues
<1>1. /\ Under0 /\ done[Control] = avail[Control] /\ seen[Control] = avail[Control]
      /\ held[Control] = None /\ resp = Sent
  BY AnsweredBySent DEF Receive
<1>2. /\ last_used' = [last_used EXCEPT ![Control] = Inc(last_used[Control])]
      /\ last_used \in [Queues -> Idx]
  BY DEF Receive, IInv, TypeOK
<1>3. last_used' \in [Queues -> Idx]
  BY <1>0, <1>2, IncDec
<1>4. stage' \in Stages /\ pc' \in {"shell", "fill"}
  BY AdvanceRange DEF Receive, IInv
<1>5. TypeOK'
  BY <1>3, <1>4 DEF Receive, IInv, TypeOK, setup, device
<1>6. Idle0'
  BY <1>0, <1>1, <1>2 DEF Receive, Idle0, Under0, device
<1> QED
  BY <1>4, <1>5, <1>6, IdleKeepsIInv DEF Receive, setup, device

\* sleep(1000) is over.
LEMMA EndPlayingKeepsIInv == ASSUME IInv, EndPlaying PROVE IInv'
<1>1. stage' \in Stages /\ pc' \in {"shell", "fill"}
  BY AdvanceRange DEF EndPlaying, IInv
<1>2. TypeOK'
  BY <1>1 DEF EndPlaying, IInv, TypeOK, setup, driver, device
<1>3. Idle0'
  BY DEF EndPlaying, IInv, Idle0, Busy, driver, device
<1> QED
  BY <1>1, <1>2, <1>3, IdleKeepsIInv DEF EndPlaying, setup, device

\* What the device does changes nothing the driver decides.
LEMMA DeviceKeepsIInv ==
  ASSUME IInv, NEW q \in Queues, DeviceStep(q)
  PROVE  IInv'
<1>0. /\ UNCHANGED <<pc, stage, setup, driver>> /\ Control \in Queues
      /\ Sent' = Sent /\ Queue' = Queue
  BY DEF DeviceStep, Take, Rest, Return, Control, Queues, Sent, Queue
<1>1. /\ Busy' <=> Busy
      /\ Ready' <=> Ready
      /\ Head0' = Head0
      /\ Placed(Head0)' <=> Placed(Head0)
      /\ Placed(next_avail[Control])' <=> Placed(next_avail[Control])
  BY <1>0 DEF Busy, Ready, Placed, Head0, Second, setup, driver
<1>2. /\ seen \in [Queues -> Idx] /\ done \in [Queues -> Idx]
      /\ used \in [Queues -> Idx]
      /\ held \in [Queues -> Payloads \cup {None}]
  BY DEF IInv, TypeOK
<1>3. ASSUME TypeOK', used'[Control] = done'[Control], ~Busy => Idle0', Busy => Under0'
      PROVE  IInv'
  BY <1>0, <1>1, <1>3 DEF IInv, setup, driver, CommandsDoNotFault
<1>4. CASE Take(q)
  <2>1. /\ seen[q] # avail[q] /\ held[q] = None
        /\ held' = [held EXCEPT ![q] = IF q = Control THEN dma ELSE "audio"]
        /\ seen' = [seen EXCEPT ![q] = Inc(seen[q])]
        /\ UNCHANGED <<used, resp, notified, done>>
    BY <1>4 DEF Take
  <2>2. (dma # None /\ dma \in Payloads) \/ q # Control
    <3>1. q = Control => Busy
      BY <2>1 DEF IInv, Idle0
    <3>2. Busy => dma = Sent
      BY DEF IInv, Under0
    <3>3. Sent \in Payloads /\ None \notin Payloads
      BY SentRange, ScriptLength, SMTT(30) DEF IInv, Payloads, None, Script
    <3> QED BY <3>1, <3>2, <3>3
  <2>3. "audio" \in Payloads
    BY ScriptLength, SMTT(30) DEF Payloads, Script
  <2>4. TypeOK'
    BY <1>0, <1>2, <2>1, <2>2, <2>3, IncDec DEF IInv, TypeOK, setup, driver
  <2>5. ~Busy => Idle0'
    BY <1>0, <1>2, <2>1 DEF IInv, Idle0, driver
  <2>6. Busy => Under0'
    <3> SUFFICES ASSUME Busy PROVE Under0'
      OBVIOUS
    <3>1. Under0
      BY DEF IInv
    <3>2. CASE q # Control
      BY <1>0, <1>1, <1>2, <2>1, <3>1, <3>2 DEF Under0, driver
    <3>3. CASE q = Control
      BY <1>0, <1>1, <1>2, <2>1, <3>1, <3>3 DEF Under0, driver
    <3> QED BY <3>2, <3>3
  <2> QED
    BY <1>3, <2>1, <2>4, <2>5, <2>6 DEF IInv
<1>5. CASE Rest(q)
  <2>1. UNCHANGED <<used, resp, seen, done, held>> /\ notified' \subseteq notified
    BY <1>5 DEF Rest
  <2>2. TypeOK'
    BY <1>0, <2>1 DEF IInv, TypeOK, setup, driver
  <2>3. (Idle0' <=> Idle0) /\ (Under0' <=> Under0)
    BY <1>0, <1>1, <2>1 DEF Idle0, Under0, driver
  <2> QED
    BY <1>3, <2>1, <2>2, <2>3 DEF IInv
<1>6. CASE Return(q)
  <2>1. /\ held[q] # None
        /\ resp' = IF q = Control THEN held[q] ELSE resp
        /\ done' = [done EXCEPT ![q] = Inc(done[q])]
        /\ used' = [used EXCEPT ![q] = done'[q]]
        /\ held' = [held EXCEPT ![q] = None]
        /\ UNCHANGED <<notified, seen>>
    BY <1>6 DEF Return
  <2>2. q = Control => Busy /\ Under0 /\ held[Control] = Sent /\ Sent \in Commands
    BY <2>1, SentRange DEF IInv, Idle0, Under0, Busy
  <2>3. /\ done' \in [Queues -> Idx] /\ used' \in [Queues -> Idx]
        /\ held' \in [Queues -> Payloads \cup {None}]
    BY <1>2, <2>1, IncDec
  <2>4. resp' \in Commands \cup {None}
    BY <2>1, <2>2 DEF IInv, TypeOK
  <2>5. TypeOK'
    BY <1>0, <2>1, <2>3, <2>4 DEF IInv, TypeOK, setup, driver
  <2>6. used'[Control] = done'[Control]
    BY <1>0, <1>2, <2>1 DEF IInv
  <2>7. ~Busy => Idle0'
    BY <1>0, <1>2, <2>1, <2>2 DEF IInv, Idle0, driver
  <2>8. Busy => Under0'
    <3> SUFFICES ASSUME Busy PROVE Under0'
      OBVIOUS
    <3>1. Under0
      BY DEF IInv
    <3>2. CASE q # Control
      BY <1>0, <1>1, <1>2, <2>1, <3>1, <3>2 DEF Under0, driver
    <3>3. CASE q = Control
      BY <1>0, <1>1, <1>2, <2>1, <3>1, <3>3 DEF Under0, driver
    <3> QED BY <3>2, <3>3
  <2> QED
    BY <1>3, <2>5, <2>6, <2>7, <2>8
<1> QED
  BY <1>4, <1>5, <1>6 DEF DeviceStep
-------------------------------------------------------------------------------
(* What holds in every run *)

\* Every step, on rings that were cleared, keeps the invariant.
LEMMA NextKeepsIInv == ASSUME Fresh = {0}, IInv, [Next]_vars PROVE IInv'
<1>1. CASE BootFails \/ BootDone
  BY <1>1, BootKeepsIInv
<1>2. CASE Beep
  BY <1>2, BeepKeepsIInv
<1>3. CASE DriverStep
  BY <1>3, FillKeepsIInv, FaultKeepsIInv, PublishKeepsIInv, NotifyKeepsIInv,
     ReceiveKeepsIInv, EndPlayingKeepsIInv DEF DriverStep
<1>4. ASSUME NEW q \in Queues, DeviceStep(q) PROVE IInv'
  BY <1>4, DeviceKeepsIInv
<1>5. CASE UNCHANGED vars
  <2>1. UNCHANGED <<pc, stage, live, size, wiring, next_avail, last_used, desc, ring, avail,
                    dma, reply, used, resp, notified, seen, done, held>>
    BY <1>5 DEF vars, setup, driver, device
  <2>2. Sent' = Sent /\ Queue' = Queue /\ Head0' = Head0
    BY <2>1 DEF Sent, Queue, Head0
  <2>3. Busy' = Busy /\ Ready' = Ready /\ Idle0' = Idle0
        /\ \A n : Placed(n)' = Placed(n)
    BY <2>1, <2>2 DEF Busy, Ready, Idle0, Placed
  <2>4. Under0' = Under0
    BY <2>1, <2>2 DEF Under0, Placed
  <2>5. TypeOK'
    BY <2>1 DEF IInv, TypeOK
  <2>6. CommandsDoNotFault'
    BY <2>1, <2>2 DEF IInv, CommandsDoNotFault
  <2> QED
    BY <2>1, <2>2, <2>3, <2>4, <2>5, <2>6 DEF IInv, Placed
<1> QED
  BY <1>1, <1>2, <1>3, <1>4, <1>5 DEF Next

\* The invariant holds throughout.
LEMMA Invariance == ASSUME Fresh = {0} PROVE Spec => []IInv
<1>1. IInv /\ [Next]_vars => IInv'
  BY NextKeepsIInv
<1> QED
  BY <1>1, InitIInv, PTL DEF Spec

\* The indices of both queues stay in range, whatever sizes the device reports and
\* however often the indices wrap.
THEOREM VirtioTypes == ASSUME Fresh = {0} PROVE Spec => []TypeOK
<1>1. IInv => TypeOK
  BY DEF IInv
<1> QED
  BY <1>1, Invariance, PTL

\* The device never sees a command whose bytes or descriptors the driver has
\* touched again, for every queue size and every index width.
THEOREM CommandStaysIntact == ASSUME Fresh = {0} PROVE Spec => []CommandIsIntact
<1>1. IInv => CommandIsIntact
  <2> SUFFICES ASSUME IInv, avail[Control] # done[Control]
               PROVE  /\ avail[Control] = Inc(done[Control]) /\ dma = Sent
                      /\ Placed(Head0)
    BY DEF CommandIsIntact, Placed
  <2>1. Under0
    BY DEF IInv, Idle0
  <2> QED
    BY <2>1 DEF Under0
<1> QED
  BY <1>1, Invariance, PTL

\* Only the samples divide by the size of a queue the device does not have.
THEOREM CommandsNeverFault == ASSUME Fresh = {0} PROVE Spec => []CommandsDoNotFault
<1>1. IInv => CommandsDoNotFault
  BY DEF IInv
<1> QED
  BY <1>1, Invariance, PTL

\* virtq_send_command_sync() returns the answer of its own command: the poll
\* compares indices for equality only, and no older answer can end it.
THEOREM AnswersMatch == ASSUME Fresh = {0} PROVE Spec => AnswerIsMine
<1>1. IInv /\ [Next]_vars => [last_used' # last_used => reply' = Sent]_vars
  <2> SUFFICES ASSUME IInv, Next, last_used' # last_used
               PROVE  reply' = Sent
    OBVIOUS
  <2>1. Receive
    BY DEF Next, BootFails, BootDone, Beep, DriverStep, Fill, FillFaults, Publish, Notify,
           EndPlaying, DeviceStep, Take, Rest, Return, driver
  <2> QED
    BY <2>1, AnsweredBySent DEF Receive
<1> QED
  BY <1>1, Invariance, PTL DEF Spec, AnswerIsMine
===============================================================================
