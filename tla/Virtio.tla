-------------------------------- MODULE Virtio --------------------------------
(***************************************************************************)
(* The virtio-sound driver: pci_scan() and virtio_sound_init() at boot,    *)
(* then the command `vsbeep`, which sends five commands on the control     *)
(* queue (0) and one buffer of samples on the playback queue (2).          *)
(*                                                                         *)
(* The device is external.  It reads and writes the rings and dma_buffer   *)
(* between any two steps of the driver, takes what is available in order,  *)
(* and looks at a queue only once it was told to look at that queue.       *)
(***************************************************************************)
EXTENDS Naturals, Sequences

CONSTANTS
  Sizes,    \* the queue sizes a device may report
  MaxSize,  \* the largest of them
  IdxMod,   \* the ring indices are unsigned modulo this (2^16 in the code)
  Fresh     \* what an index in a frame nobody has cleared may hold

ASSUME IdxAssumption == IdxMod \in Nat \ {0, 1} /\ Fresh \subseteq 0 .. IdxMod - 1
ASSUME SizeAssumption ==
  /\ MaxSize \in Nat /\ Sizes \subseteq 0 .. MaxSize
  /\ \A s \in Sizes \ {0} : IdxMod % s = 0

VARIABLES
  pc,          \* where the shell is in the driver
  stage,       \* how far virtio_sound_beep() has come: an index into Script
  live,        \* the device's status has DRIVER_OK
  size,        \* queues[q].size
  next_avail,  \* queues[q].next_avail_idx
  last_used,   \* queues[q].last_used_idx
  desc,        \* queues[q].desc_table: what each descriptor describes
  ring,        \* queues[q].avail_ring->ring
  avail,       \* queues[q].avail_ring->idx
  used,        \* queues[q].used_ring->idx
  dma,         \* what dma_buffer holds from its start
  resp,        \* whose answer follows the command in dma_buffer
  reply,       \* what the last command returned to its caller
  wiring,      \* how the device decodes a notification
  notified,    \* device: the queues it was told to look at
  seen,        \* device: how far it has read each available ring
  done,        \* device: how many buffers of each queue it has returned
  held         \* device: the request it works on, per queue

setup == <<live, size, wiring>>
driver == <<next_avail, last_used, desc, ring, avail, dma, reply>>
device == <<notified, seen, done, held>>
vars == <<pc, stage, setup, driver, used, resp, device>>

Queues == {0, 2}
Control == 0
Playback == 2

\* What virtio_sound_beep() sends, in this order.
Script == <<"SET_PARAMS", "PREPARE", "START", "audio", "STOP", "RELEASE">>
Stages == 1 .. Len(Script)
Payloads == {Script[i] : i \in Stages}
Commands == Payloads \ {"audio"}

Sent == Script[stage]
Queue == IF Sent = "audio" THEN Playback ELSE Control
None == "none"

Wirings == {"one register", "multiplier read as 0", "multiplier read"}

Idx == 0 .. IdxMod - 1
Inc(i) == IF i = IdxMod - 1 THEN 0 ELSE i + 1
Dec(i) == IF i = 0 THEN IdxMod - 1 ELSE i - 1
-------------------------------------------------------------------------------
(* Boot *)

\* pci_scan() finds no device, no common configuration or no notification area;
\* or virtio_sound_init() gives up, because the device rejects the features or has
\* no control queue.  The queues keep the size 0 of a cleared .bss.
BootFails ==
  /\ pc = "boot"
  /\ pc' = "shell"
  /\ UNCHANGED <<stage, setup, driver, used, resp, device>>

\* Mutant: the size of the control queue is not tested.
HasControlQueue_Untested(sizes) == TRUE

\* The test that makes virtio_sound_init() give up on a device without queue 0.
HasControlQueue(sizes) == sizes[Control] # 0

\* virtio_sound_init() sets up both queues and makes the device live.  Only the
\* size of the control queue is tested, and the frames the rings are in are not
\* cleared.
BootDone ==
  /\ pc = "boot"
  /\ pc' = "shell"
  /\ live' = TRUE
  /\ size' \in [Queues -> Sizes] /\ HasControlQueue(size')
  /\ avail' \in [Queues -> Fresh]
  /\ used' \in [Queues -> Fresh]
  /\ UNCHANGED <<stage, wiring, next_avail, last_used, desc, ring, dma, reply, resp,
                 device>>
-------------------------------------------------------------------------------
(* vsbeep *)

Beep ==
  /\ pc = "shell"
  /\ pc' = "fill" /\ stage' = 1
  /\ UNCHANGED <<setup, driver, used, resp, device>>

\* Mutant: the descriptor of the answer is not the next one but the first one.
Second_First(head, n) == 0

\* The descriptor after head, in a table of n.
Second(head, n) == (head + 1) % n

\* The descriptors of a request that starts at head: a command and, linked to it,
\* its answer; or a single buffer of samples.
Describe(table, head, n) ==
  IF Sent = "audio" THEN [table EXCEPT ![head] = "audio"]
  ELSE [table EXCEPT ![head] = "command", ![Second(head, n)] = "answer"]

\* dma_buffer is filled (the samples reach over the answer), the descriptors are
\* written and the head goes into the available ring, which does not show it yet.
Fill ==
  /\ pc = "fill"
  /\ size[Queue] # 0
  /\ dma' = Sent
  /\ resp' = IF Sent = "audio" THEN None ELSE resp
  /\ desc' = [desc EXCEPT ![Queue] = Describe(@, next_avail[Queue], size[Queue])]
  /\ ring' = [ring EXCEPT ![Queue][avail[Queue] % size[Queue]] = next_avail[Queue]]
  /\ pc' = "publish"
  /\ UNCHANGED <<stage, setup, next_avail, last_used, avail, reply, used, device>>

\* `% q->size` on a queue of no descriptors: fault_handler() halts the machine.
\* For a command it comes before the descriptors, for the samples after theirs.
FillFaults ==
  /\ pc = "fill"
  /\ size[Queue] = 0
  /\ dma' = Sent
  /\ \/ Sent # "audio" /\ UNCHANGED <<resp, desc>>
     \/ /\ Sent = "audio"
        /\ resp' = None
        /\ desc' = [desc EXCEPT ![Queue][next_avail[Queue]] = "audio"]
  /\ pc' = "fault"
  /\ UNCHANGED <<stage, setup, next_avail, last_used, ring, avail, reply, used, device>>

\* The descriptor after the ones of a request that starts at head.
NextFree(head, n) == (IF Sent = "audio" THEN head + 1 ELSE Second(head, n) + 1) % n

\* avail_ring->idx++ shows the request to the device.
Publish ==
  /\ pc = "publish"
  /\ avail' = [avail EXCEPT ![Queue] = Inc(@)]
  /\ next_avail' = [next_avail EXCEPT ![Queue] = NextFree(@, size[Queue])]
  /\ pc' = "notify"
  /\ UNCHANGED <<stage, setup, last_used, desc, ring, dma, reply, used, resp, device>>

\* Mutant: the number of the queue that is written is that of the selected one.
Target_Selected(q) == IF wiring = "multiplier read as 0" THEN Control ELSE Playback

\* notify_queue() writes the number of the queue at the notification offset of the
\* queue that init selected last, which is the playback queue, times what was read
\* as multiplier.  A device with one register for all queues goes by the value;
\* one with a register per queue goes by the address.
Target(q) ==
  CASE wiring = "one register"         -> q
    [] wiring = "multiplier read as 0" -> Control
    [] wiring = "multiplier read"      -> Playback

Notify ==
  /\ pc = "notify"
  /\ notified' = notified \cup {Target(Queue)}
  /\ pc' = IF Sent = "audio" THEN "playing" ELSE "wait"
  /\ UNCHANGED <<stage, setup, driver, used, resp, seen, done, held>>

\* The next request of the script, or back to the shell.
Advance ==
  IF stage = Len(Script) THEN pc' = "shell" /\ UNCHANGED stage
  ELSE pc' = "fill" /\ stage' = stage + 1

\* Mutant: the driver does not wait for the device.
Answered_Always == TRUE

\* The poll of virtq_send_command_sync() ends.
Answered == last_used[Control] # used[Control]

\* The answer is copied out; its code is not looked at.
Receive ==
  /\ pc = "wait"
  /\ Answered
  /\ last_used' = [last_used EXCEPT ![Control] = Inc(@)]
  /\ reply' = resp
  /\ Advance
  /\ UNCHANGED <<setup, next_avail, desc, ring, avail, dma, used, resp, device>>

\* sleep(1000) after the samples were sent: any interrupt may end it.
EndPlaying ==
  /\ pc = "playing"
  /\ Advance
  /\ UNCHANGED <<setup, driver, used, resp, device>>
-------------------------------------------------------------------------------
(* The device *)

\* It takes the next request of a queue: the command is read at that moment.
Take(q) ==
  /\ live /\ q \in notified /\ held[q] = None /\ seen[q] # avail[q]
  /\ held' = [held EXCEPT ![q] = IF q = Control THEN dma ELSE "audio"]
  /\ seen' = [seen EXCEPT ![q] = Inc(@)]
  /\ UNCHANGED <<pc, stage, setup, driver, used, resp, notified, done>>

\* It finds nothing more in a queue.
Rest(q) ==
  /\ q \in notified /\ held[q] = None /\ seen[q] = avail[q]
  /\ notified' = notified \ {q}
  /\ UNCHANGED <<pc, stage, setup, driver, used, resp, seen, done, held>>

\* It returns a request: a command with its answer, samples once they were played.
Return(q) ==
  /\ held[q] # None
  /\ resp' = IF q = Control THEN held[q] ELSE resp
  /\ done' = [done EXCEPT ![q] = Inc(@)]
  /\ used' = [used EXCEPT ![q] = done'[q]]
  /\ held' = [held EXCEPT ![q] = None]
  /\ UNCHANGED <<pc, stage, setup, driver, notified, seen>>
-------------------------------------------------------------------------------
Init ==
  /\ pc = "boot" /\ stage = 1
  /\ live = FALSE
  /\ size = [q \in Queues |-> 0]
  /\ next_avail = [q \in Queues |-> 0]
  /\ last_used = [q \in Queues |-> 0]
  /\ desc = [q \in Queues |-> [i \in 0 .. MaxSize |-> None]]
  /\ ring = [q \in Queues |-> [i \in 0 .. MaxSize |-> 0]]
  /\ avail = [q \in Queues |-> 0]
  /\ used = [q \in Queues |-> 0]
  /\ dma = None /\ resp = None /\ reply = None
  /\ wiring \in Wirings
  /\ notified = {}
  /\ seen = [q \in Queues |-> 0]
  /\ done = [q \in Queues |-> 0]
  /\ held = [q \in Queues |-> None]

DriverStep == Fill \/ FillFaults \/ Publish \/ Notify \/ Receive \/ EndPlaying
DeviceStep(q) == Take(q) \/ Rest(q) \/ Return(q)

Next == BootFails \/ BootDone \/ Beep \/ DriverStep \/ \E q \in Queues : DeviceStep(q)

Spec == Init /\ [][Next]_vars

\* The shell's code runs on, and the device serves a queue it was told about.
FairSpec == Spec /\ WF_vars(DriverStep) /\ \A q \in Queues : WF_vars(DeviceStep(q))
-------------------------------------------------------------------------------
(* Properties *)

\* Indices, descriptors and payloads are in range.
TypeOK ==
  /\ pc \in {"boot", "shell", "fill", "publish", "notify", "wait", "playing", "fault"}
  /\ stage \in Stages
  /\ live \in BOOLEAN /\ wiring \in Wirings
  /\ size \in [Queues -> Sizes \cup {0}]
  /\ desc \in [Queues -> [0 .. MaxSize -> {None, "command", "answer", "audio"}]]
  /\ ring \in [Queues -> [0 .. MaxSize -> 0 .. MaxSize]]
  /\ avail \in [Queues -> Idx] /\ used \in [Queues -> Idx]
  /\ last_used \in [Queues -> Idx]
  /\ seen \in [Queues -> Idx] /\ done \in [Queues -> Idx]
  /\ next_avail \in [Queues -> 0 .. MaxSize]
  /\ \A q \in Queues : next_avail[q] = 0 \/ next_avail[q] < size[q]
  /\ dma \in Payloads \cup {None}
  /\ resp \in Commands \cup {None} /\ reply \in Commands \cup {None}
  /\ held \in [Queues -> Payloads \cup {None}]
  /\ notified \subseteq Queues

\* The head of the last request shown on the control queue.
Head0 == ring[Control][Dec(avail[Control]) % size[Control]]

\* While the device owns a command, it is the only one, dma_buffer still holds it,
\* and its two descriptors are in place, however often the ring indices have
\* wrapped.  (A queue of one descriptor has no room for the answer's.)
CommandIsIntact ==
  avail[Control] # done[Control] =>
    /\ avail[Control] = Inc(done[Control])
    /\ dma = Sent
    /\ size[Control] > 1 => /\ desc[Control][Head0] = "command"
                            /\ desc[Control][Second(Head0, size[Control])] = "answer"

\* What virtq_send_command_sync() returns is the answer to the command it was
\* called with, never that of an earlier one, also when the used index wraps.
AnswerIsMine == [][last_used' # last_used => reply' = Sent]_vars

\* Once virtio_sound_init() has made the device live, a command never divides by
\* the size of a missing queue; the samples may, because q2_size is not tested.
CommandsDoNotFault == pc = "fault" /\ live => Sent = "audio"

\* `vsbeep` comes back to the prompt, unless the device waits to be told of the
\* control queue at an address of its own: then nothing ends the poll.
BeepReturns ==
  wiring # "multiplier read" => (pc = "fill" ~> pc \in {"shell", "fault"})
-------------------------------------------------------------------------------
(* What comments in the code say, and the code does not do *)

\* virtio.c: "Helper to notify the device that a queue has new buffers."
NotifiesItsQueue == [][pc = "notify" /\ pc' # pc => Queue \in notified']_vars

\* virtio.c: "Use our existing DMA-safe buffer" for the samples: they are in it
\* until the device returns them.
SamplesAreIntact == avail[Playback] # done[Playback] => dma = "audio"

\* virtio.c: "Update our internal index for the next free descriptor": the
\* descriptor it moves to is free.
PlaybackHasRoom ==
  (avail[Playback] + IdxMod - done[Playback]) % IdxMod <= size[Playback]
===============================================================================
