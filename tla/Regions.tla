------------------------------ MODULE Regions -------------------------------
(* register_region and unregister_region on a running runtime: a registrar   *)
(* that hands out slots under a lock, sends each change to every worker and  *)
(* waits for their answers, and the workers that apply it once per loop      *)
(* iteration to their registry and to the ring's buffer table.               *)
EXTENDS Launch

CONSTANT MaxRegions  \* slots not taken by Config::registered_regions

VARIABLES
  free_slots,  \* RegistrarInner.free_slots, a stack
  regcall,     \* the call each thread is in
  control,     \* region_rx of each worker: [kind, slot, num, by]
  acks,        \* the answers waiting for each thread
  iovecs,      \* FixedBufferRegistry.iovecs of each worker: a region or 0
  table,       \* the kernel's buffer table of each worker's ring
  ids,         \* the RegionIds the program holds: slot and region
  made         \* region calls made so far, which also name the regions

regionVars == <<free_slots, regcall, control, acks, iovecs, table, ids, made>>

Slots == 1 .. MaxRegions
Threads == 1 .. lsetup.threads
NoCall == [at |-> "idle", kind |-> "none", slot |-> 0, num |-> 0, next |-> 1, got |-> 0, err |-> FALSE]

InitRegions ==
  /\ InitLaunch
  /\ free_slots = [i \in 1 .. MaxRegions |-> MaxRegions + 1 - i]
  /\ regcall = [c \in Threads |-> NoCall]
  /\ control = [w \in Workers |-> <<>>]
  /\ acks = [c \in Threads |-> <<>>]
  /\ iovecs = [w \in Workers |-> [s \in Slots |-> 0]]
  /\ table = [w \in Workers |-> [s \in Slots |-> 0]]
  /\ ids = {} /\ made = 0

(* ---------------------------- the registrar ---------------------------- *)

MayCall(c) == launcher = "ok" /\ regcall[c].at = "idle" /\ made < lsetup.calls

(* register: a slot is popped, or the table is full. *)
RegisterRegion(c) ==
  /\ MayCall(c)
  /\ made' = made + 1
  /\ IF free_slots = <<>> THEN UNCHANGED <<regcall, free_slots>>
     ELSE /\ free_slots' = Front(free_slots)
          /\ regcall' = [regcall EXCEPT ![c] =
               [NoCall EXCEPT !.at = "send", !.kind = "register", !.slot = Last(free_slots), !.num = made + 1]]
  /\ UNCHANGED <<control, acks, iovecs, table, ids, launchVars>>

(* unregister: the program gives an id up, once. *)
UnregisterRegion(c) ==
  /\ MayCall(c)
  /\ \E id \in ids :
       /\ ids' = ids \ {id}
       /\ regcall' = [regcall EXCEPT ![c] =
            [NoCall EXCEPT !.at = "send", !.kind = "unregister", !.slot = id.slot, !.num = made + 1]]
  /\ made' = made + 1
  /\ UNCHANGED <<free_slots, control, acks, iovecs, table, launchVars>>

(* What register and unregister do with the result of the broadcast. The     *)
(* answers still to come go nowhere: ack_rx is dropped.                      *)
Finish(c, ok) ==
  LET call == regcall[c] IN
  /\ regcall' = [regcall EXCEPT ![c] = NoCall]
  /\ acks' = [acks EXCEPT ![c] = <<>>]
  /\ ids' = IF call.kind = "register" /\ ok THEN ids \union {[slot |-> call.slot, region |-> call.num]} ELSE ids
  /\ free_slots' = IF (call.kind = "register") # ok THEN Append(free_slots, call.slot) ELSE free_slots

(* broadcast: the message to the next worker. A worker that has gone ends it *)
(* with an error, whatever was already sent.                                 *)
BroadcastSend(c) ==
  /\ regcall[c].at = "send"
  /\ LET call == regcall[c]
         w == call.next IN
     IF Receiving(w)
     THEN /\ control' = [control EXCEPT ![w] =
               Append(@, [kind |-> call.kind, slot |-> call.slot, num |-> call.num, by |-> c])]
          /\ regcall' = [regcall EXCEPT ![c].at = "wake"]
          /\ UNCHANGED <<free_slots, acks, ids>>
     ELSE Finish(c, FALSE) /\ UNCHANGED control
  /\ UNCHANGED <<iovecs, table, made, launchVars>>

BroadcastWake(c) ==
  /\ regcall[c].at = "wake"
  /\ wake' = [wake EXCEPT ![regcall[c].next] = TRUE]
  /\ regcall' = [regcall EXCEPT ![c].next = @ + 1,
                              ![c].at = IF regcall[c].next = lsetup.n THEN "collect" ELSE "send"]
  /\ UNCHANGED <<free_slots, control, acks, iovecs, table, ids, made, lsetup, launcher, listening,
                 worker, startup, heard, flag, reading, live, armed, fd, closes, closed, acceptor,
                 chan, conn, shutting, budget>>

(* The caller of message m still waits for its answer. *)
Asking(m) == regcall[m.by].num = m.num

(* An answer can still come from a message some worker holds. *)
Unanswered(c) == \E w \in Workers : \E i \in DOMAIN control[w] : control[w][i].by = c /\ Asking(control[w][i])

(* The next of the n receives: an answer, or a disconnected channel. The     *)
(* first error is kept and the rest are still collected.                     *)
CollectTaking(c, n) ==
  /\ regcall[c].at = "collect"
  /\ acks[c] # <<>> \/ ~Unanswered(c)
  /\ LET call == regcall[c]
         bad == IF acks[c] = <<>> THEN TRUE ELSE ~Head(acks[c])
         err == call.err \/ bad IN
     IF call.got + 1 = n THEN Finish(c, ~err)
     ELSE /\ regcall' = [regcall EXCEPT ![c] = [@ EXCEPT !.got = @ + 1, !.err = err]]
          /\ acks' = [acks EXCEPT ![c] = IF @ = <<>> THEN @ ELSE Tail(@)]
          /\ UNCHANGED <<free_slots, ids>>
  /\ UNCHANGED <<control, iovecs, table, made, launchVars>>

CollectFirst(c) == CollectTaking(c, 1)

CollectAck(c) == CollectTaking(c, lsetup.n)

(* ------------------------------ a worker ------------------------------- *)

(* set_slot refuses a slot that is taken, clear_slot one that is free. *)
SlotFits(w, m) == (iovecs[w][m.slot] = 0) = (m.kind = "register")

(* A worker past its check for shutdown applies what its channel holds: to   *)
(* the registry, then to the ring, which may refuse the update and leaves    *)
(* the registry as it is.                                                    *)
ApplyControl(w) ==
  /\ worker[w] = "apply" /\ control[w] # <<>>
  /\ LET m == Head(control[w])
         new == IF m.kind = "register" THEN m.num ELSE 0
         fits == SlotFits(w, m) IN
     /\ control' = [control EXCEPT ![w] = Tail(@)]
     /\ iovecs' = IF fits THEN [iovecs EXCEPT ![w][m.slot] = new] ELSE iovecs
     /\ \/ /\ table' = IF fits THEN [table EXCEPT ![w][m.slot] = new] ELSE table
           /\ acks' = IF Asking(m) THEN [acks EXCEPT ![m.by] = Append(@, fits)] ELSE acks
           /\ UNCHANGED budget
        \/ /\ fits /\ Fault
           /\ acks' = IF Asking(m) THEN [acks EXCEPT ![m.by] = Append(@, FALSE)] ELSE acks
           /\ UNCHANGED table
  /\ UNCHANGED <<free_slots, regcall, ids, made, lsetup, launcher, listening, worker, startup,
                 heard, flag, wake, reading, live, armed, fd, closes, closed, acceptor, chan, conn,
                 shutting>>

(* The channel is empty: the iteration goes on. What is sent from here on    *)
(* waits for the next one.                                                   *)
ControlApplied(w) ==
  /\ worker[w] = "apply" /\ control[w] = <<>>
  /\ worker' = [worker EXCEPT ![w] = "work"]
  /\ UNCHANGED <<regionVars, lsetup, launcher, listening, startup, heard, flag, wake, reading, live,
                 armed, fd, closes, closed, acceptor, chan, conn, shutting, budget>>

WorkerEndsKeeping(w) ==
  /\ LoopExits(w) \/ PanicWorker(w)
  /\ UNCHANGED regionVars

(* A worker that ends drops its channel, and with each message the sender of *)
(* its answer.                                                               *)
WorkerEnds(w) ==
  /\ LoopExits(w) \/ PanicWorker(w)
  /\ control' = [control EXCEPT ![w] = <<>>]
  /\ UNCHANGED <<free_slots, regcall, acks, iovecs, table, ids, made>>

RegionsNext ==
  \/ LaunchStep /\ UNCHANGED regionVars
  \/ \E w \in Workers : ApplyControl(w) \/ ControlApplied(w) \/ WorkerEnds(w)
  \/ \E c \in Threads : RegisterRegion(c) \/ UnregisterRegion(c) \/ BroadcastSend(c)
                        \/ BroadcastWake(c) \/ CollectAck(c)

(* ------------------------------ properties ----------------------------- *)

RegionsTypeOK ==
  /\ \A w \in Workers, s \in Slots : {iovecs[w][s], table[w][s]} \subseteq 0 .. made
  /\ \A c \in Threads : Len(acks[c]) <= lsetup.n
  /\ Range(free_slots) \subseteq Slots

(* An id the program holds names its region in every worker that runs, in    *)
(* its registry and in its ring: register_region returns only after every    *)
(* worker applied it ("every worker writes the same iovec into the same      *)
(* RegionId"), and no later, failed or half-delivered call undoes it.        *)
IdsHold ==
  \A id \in ids, w \in Workers :
    Receiving(w) => iovecs[w][id.slot] = id.region /\ table[w][id.slot] = id.region

(* A slot is free, or held by one id, or by one call: never two of these. *)
SlotsDisjoint ==
  LET calling == {c \in Threads : regcall[c].at # "idle"} IN
  /\ IsInjective(free_slots)
  /\ \A id \in ids : id.slot \notin Range(free_slots)
  /\ \A i, j \in ids : i # j => i.slot # j.slot
  /\ \A c \in calling : /\ regcall[c].slot \notin Range(free_slots) \union {id.slot : id \in ids}
                        /\ \A d \in calling \ {c} : regcall[d].slot # regcall[c].slot

(* Region ids mean the same memory on every worker. *)
RegionsAgree == RegionsTypeOK /\ IdsHold /\ SlotsDisjoint

(* The threads of a runtime lose no connection, socket, report or region,    *)
(* whatever fails while they start, run and end.                             *)
RuntimeSound == LaunchSound /\ RegionsAgree

Calling(c) == c \in Threads /\ regcall[c].at # "idle"

(* A region call returns, also when a worker ends before it has answered. *)
CallsReturn == \A c \in {1, 2} : Calling(c) ~> ~Calling(c)

(* With a tick timeout configured and fewer than four workers, launch()      *)
(* returns, region calls return, and the threads end once told to.           *)
RuntimeEnds == LaunchReturns /\ ThreadsEnd /\ CallsReturn
=============================================================================
