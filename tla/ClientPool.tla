----------------------------- MODULE ClientPool -----------------------------
(***************************************************************************)
(* The fixed-size client pool of ringline-redis/src/pool.rs; the pools of  *)
(* ringline-memcache and ringline-ping are the same code without the AUTH  *)
(* exchange.  Callers share the pool on one worker: a step is what a       *)
(* caller runs between two awaits.  Under the pool lies the worker's       *)
(* connection table, whose slots are recycled by generation and may be     *)
(* taken by connections that are not the pool's.                           *)
(***************************************************************************)
EXTENDS Naturals, FiniteSets, FiniteSetsExt

CONSTANTS Callers,    \* tasks that call client() or connect_all()
          Size,       \* PoolConfig.pool_size
          ConnSlots,  \* slots of the worker's connection table
          MaxGen,     \* bound: generations a connection slot goes through
          FaultSets   \* the sets of faults a behaviour may be given

(* checkout refuses at once in a pool of no slots; a slot's marks and the    *)
(* absence of a handle are not connections.                                  *)
ASSUME ClientPoolAssumption ==
  /\ Size \in Nat \ {0} /\ MaxGen \in Nat
  /\ {"Disconnected", "Lent", "none"} \intersect ConnSlots = {}

VARIABLES
  slots,       \* Shared.slots
  cursor,      \* Shared.next
  callers,     \* what each caller is in the middle of, or holds
  conns,       \* the connection table: generation, state, opened by the pool
  pool_alive,  \* the Pool value has not been dropped
  faults       \* the faults of this behaviour

poolVars == <<slots, cursor, callers, conns, pool_alive, faults>>

Disconnected == [conn |-> "Disconnected", gen |-> 0]
Lent == [conn |-> "Lent", gen |-> 0]
Indices == 0 .. Size - 1
Handles == [conn : ConnSlots, gen : 0 .. MaxGen]
NoHandle == [conn |-> "none", gen |-> 0]

Idle == [op |-> "none", pc |-> "idle", start |-> 0, step |-> 0, idx |-> 0,
         attempted |-> FALSE, visited |-> {}, h |-> NoHandle, result |-> "none"]

PoolInit ==
  /\ slots = [i \in Indices |-> Disconnected]
  /\ cursor = 0
  /\ callers = [t \in Callers |-> Idle]
  /\ conns = [c \in ConnSlots |-> [gen |-> 0, st |-> "free", mine |-> FALSE]]
  /\ pool_alive = TRUE
  /\ faults \in FaultSets

-----------------------------------------------------------------------------
(* The connection table, as ConnCtx::is_alive and ConnCtx::close see it. *)

IsAlive(h) == conns[h.conn].gen = h.gen /\ conns[h.conn].st = "open"

(* close goes by index: it does not compare the generation. *)
CloseIndex(cs, c) ==
  [cs EXCEPT ![c].st = IF @ \in {"open", "connecting"} THEN "closing" ELSE @]

FreeConns == {c \in ConnSlots : conns[c].st = "free" /\ conns[c].gen < MaxGen}

-----------------------------------------------------------------------------
(* Mutant: the scan follows the shared cursor instead of its snapshot. *)
SlotAtCursor(r, k) == IF r.op = "client" THEN (cursor + k) % Size ELSE k

(* The slot looked at in the k-th iteration of checkout or connect_all. *)
SlotAt(r, k) == IF r.op = "client" THEN (r.start + k) % Size ELSE k

(* checkout skips a lent slot, connect_all every slot not disconnected. *)
Stops(r, v) == IF r.op = "client" THEN v # Lent ELSE v = Disconnected

(* Mutant: only a connected slot is marked, not one about to be connected. *)
TakeUnreserved(sl, i) == IF sl[i] = Disconnected THEN sl ELSE [sl EXCEPT ![i] = Lent]

(* Mutant: a connected slot is lent without being marked. *)
TakeShared(sl, i) == IF sl[i] = Disconnected THEN [sl EXCEPT ![i] = Lent] ELSE sl

(* mem::replace(slot, Lent): lends a client out, or reserves a slot. *)
Take(sl, i) == [sl EXCEPT ![i] = Lent]

GaveUp(visited, attempted) ==
  [Idle EXCEPT !.visited = visited,
     !.result = IF attempted THEN "AllConnectionsFailed" ELSE "PoolExhausted"]

GuardOf(i, h) == [Idle EXCEPT !.pc = "guard", !.idx = i, !.h = h]

(* The rest of a scan, up to its first await or its return: slots sl, from   *)
(* iteration r.step on.  A connected slot is lent at once; a disconnected    *)
(* one is reserved before do_connect submits a connect.  A submission that   *)
(* finds no free connection slot is a connect that fails.                    *)
Scan(t, r, sl) ==
  LET stops == {k \in r.step .. Size - 1 : Stops(r, sl[SlotAt(r, k)])}
      last == IF stops = {} THEN Size - 1 ELSE Min(stops)
      i == SlotAt(r, last)
      visited == r.visited \union {SlotAt(r, j) : j \in r.step .. last}
      at == [r EXCEPT !.step = last, !.idx = i, !.visited = visited]
  IN  \/ /\ stops = {}
         /\ callers' = [callers EXCEPT ![t] =
              IF r.op = "client" THEN GaveUp(visited, r.attempted) ELSE Idle]
         /\ slots' = sl
         /\ UNCHANGED conns
      \/ /\ stops # {} /\ sl[i] # Disconnected
         /\ callers' = [callers EXCEPT ![t] = GuardOf(i, sl[i])]
         /\ slots' = Take(sl, i)
         /\ UNCHANGED conns
      \/ /\ stops # {} /\ sl[i] = Disconnected
         /\ slots' = Take(sl, i)
         /\ \/ \E c \in FreeConns :
                 /\ callers' = [callers EXCEPT ![t] = [at EXCEPT
                      !.pc = "connecting", !.h = [conn |-> c, gen |-> conns[c].gen]]]
                 /\ conns' = [conns EXCEPT ![c].st = "connecting", ![c].mine = TRUE]
            \/ /\ FreeConns = {}
               /\ callers' = [callers EXCEPT ![t] = [at EXCEPT !.pc = "connecting"]]
               /\ UNCHANGED conns

(* Mutant: the cursor is not brought back into the pool. *)
AdvancedUnwrapped(n) == n + 1

(* The round-robin cursor after a checkout. *)
Advanced(n) == (n + 1) % Size

(* Pool::client: the cursor is read once and advanced once. *)
Client(t) ==
  /\ pool_alive
  /\ callers[t].pc = "idle"
  /\ cursor' = Advanced(cursor)
  /\ Scan(t, [Idle EXCEPT !.op = "client", !.start = cursor], slots)
  /\ UNCHANGED <<pool_alive, faults>>

ConnectAll(t) ==
  /\ pool_alive
  /\ callers[t].pc = "idle"
  /\ Scan(t, [Idle EXCEPT !.op = "connect_all"], slots)
  /\ UNCHANGED <<cursor, pool_alive, faults>>

(* do_connect returned a client, so the reservation is disarmed: checkout    *)
(* wraps it in a guard; connect_all stores it and goes to the next slot.     *)
Connected(t, r) ==
  \/ /\ r.op = "client"
     /\ callers' = [callers EXCEPT ![t] = GuardOf(r.idx, r.h)]
     /\ UNCHANGED <<slots, conns>>
  \/ /\ r.op = "connect_all"
     /\ Scan(t, [r EXCEPT !.step = @ + 1, !.h = NoHandle], [slots EXCEPT ![r.idx] = r.h])

(* do_connect failed: the Reservation puts the slot back to disconnected;   *)
(* checkout tries the next slot and connect_all returns the error.          *)
ConnectFailed(t, r) ==
  LET sl == [slots EXCEPT ![r.idx] = Disconnected]
  IN  \/ /\ r.op = "client"
         /\ Scan(t, [r EXCEPT !.step = @ + 1, !.attempted = TRUE, !.h = NoHandle], sl)
      \/ /\ r.op = "connect_all"
         /\ slots' = sl
         /\ callers' = [callers EXCEPT ![t] = Idle]
         /\ UNCHANGED conns

(* ConnectFuture::poll inside do_connect: a recycled slot or a failed        *)
(* connect is an error; a connect that completed is a client, even if the    *)
(* connection has begun to close since.                                      *)
ConnectResolved(r) ==
  r.h # NoHandle => ~(conns[r.h.conn].gen = r.h.gen /\ conns[r.h.conn].st = "connecting")

ConnectOk(r) ==
  /\ r.h # NoHandle
  /\ conns[r.h.conn].gen = r.h.gen
  /\ conns[r.h.conn].st \in {"open", "closing"}

PollConnect(t) ==
  LET r == callers[t]
  IN  /\ r.pc = "connecting"
      /\ ConnectResolved(r)
      /\ \/ /\ ~ConnectOk(r)
            /\ ConnectFailed(t, r)
         \/ /\ ConnectOk(r) /\ "auth" \notin faults
            /\ Connected(t, r)
         \/ /\ ConnectOk(r) /\ "auth" \in faults
            /\ callers' = [callers EXCEPT ![t].pc = "auth"]
            /\ UNCHANGED <<slots, conns>>
      /\ UNCHANGED <<cursor, pool_alive, faults>>

(* maybe_auth returned.  On an error the Client is dropped, not closed. *)
PollAuth(t) ==
  /\ callers[t].pc = "auth"
  /\ Connected(t, callers[t]) \/ ConnectFailed(t, callers[t])
  /\ UNCHANGED <<cursor, pool_alive, faults>>

(* Mutant: cancelling the future leaves the slot reserved. *)
CancelKeepsSlot(t) ==
  /\ callers[t].pc \in {"connecting", "auth"}
  /\ ConnectResolved(callers[t]) => "late_cancel" \in faults
  /\ callers' = [callers EXCEPT ![t] = Idle]
  /\ UNCHANGED <<slots, cursor, conns, pool_alive, faults>>

(* A timeout or select drops the client() or connect_all() future while it   *)
(* is pending: the armed Reservation releases the slot.  A drop after the    *)
(* connect completed and before it is polled, or during the AUTH exchange,   *)
(* leaves the connection open with no owner, and is a fault of its own.      *)
Cancel(t) ==
  /\ callers[t].pc \in {"connecting", "auth"}
  /\ ConnectResolved(callers[t]) => "late_cancel" \in faults
  /\ callers' = [callers EXCEPT ![t] = Idle]
  /\ slots' = [slots EXCEPT ![callers[t].idx] = Disconnected]
  /\ UNCHANGED <<cursor, conns, pool_alive, faults>>

-----------------------------------------------------------------------------
Guards == {t \in Callers : callers[t].pc = "guard"}

(* Mutant: the handle goes back to its slot without is_alive. *)
DropGuardBlind(t, in_executor) ==
  LET r == callers[t]
  IN  /\ r.pc = "guard"
      /\ callers' = [callers EXCEPT ![t] = Idle]
      /\ IF ~pool_alive /\ Guards = {t}
         THEN conns' = CloseIndex(conns, r.h.conn) /\ UNCHANGED slots
         ELSE slots' = [slots EXCEPT ![r.idx] = r.h] /\ UNCHANGED conns
      /\ UNCHANGED <<cursor, pool_alive, faults>>

(* PooledClient::drop.  The last handle on the table closes its connection;  *)
(* otherwise the slot takes the client back if it is alive.  Outside the     *)
(* executor is_alive is false and close does nothing.                        *)
DropGuard(t, in_executor) ==
  LET r == callers[t]
      alive == in_executor /\ IsAlive(r.h)
  IN  /\ r.pc = "guard"
      /\ callers' = [callers EXCEPT ![t] = Idle]
      /\ IF ~pool_alive /\ Guards = {t}
         THEN /\ conns' = IF alive THEN CloseIndex(conns, r.h.conn) ELSE conns
              /\ UNCHANGED slots
         ELSE /\ slots' = [slots EXCEPT ![r.idx] = IF alive THEN r.h ELSE Disconnected]
              /\ UNCHANGED conns
      /\ UNCHANGED <<cursor, pool_alive, faults>>

(* The caller evicts a connection whose replies no longer match: Client::close *)
(* on the guard, which goes by index and does not look whether the handle is   *)
(* still that of the connection there.                                         *)
Evict(t) ==
  /\ callers[t].pc = "guard"
  /\ conns' = CloseIndex(conns, callers[t].h.conn)
  /\ UNCHANGED <<slots, cursor, callers, pool_alive, faults>>

(* Pool::mark_disconnected(h): only an idle slot matches, and the close is   *)
(* not gated on is_alive.                                                    *)
MarkDisconnected(i) ==
  /\ pool_alive
  /\ slots[i] \notin {Disconnected, Lent}
  /\ conns' = CloseIndex(conns, slots[i].conn)
  /\ slots' = [slots EXCEPT ![i] = Disconnected]
  /\ UNCHANGED <<cursor, callers, pool_alive, faults>>

(* Pool::close_all closes the live idle connections and resets every slot,   *)
(* lent ones included.                                                       *)
CloseAll ==
  LET live == {slots[i] : i \in {j \in Indices :
                 slots[j] \notin {Disconnected, Lent} /\ IsAlive(slots[j])}}
  IN  /\ pool_alive
      /\ "close_all" \in faults
      /\ conns' = [c \in ConnSlots |->
                     IF \E h \in live : h.conn = c
                     THEN CloseIndex(conns, c)[c] ELSE conns[c]]
      /\ slots' = [i \in Indices |-> Disconnected]
      /\ UNCHANGED <<cursor, callers, pool_alive, faults>>

(* The Pool is dropped, which no call in progress on it allows. *)
DropPool ==
  /\ pool_alive
  /\ "drop_pool" \in faults
  /\ \A t \in Callers : callers[t].pc \in {"idle", "guard"}
  /\ pool_alive' = FALSE
  /\ UNCHANGED <<slots, cursor, callers, conns, faults>>

-----------------------------------------------------------------------------
Waited(c) ==
  \E t \in Callers : /\ callers[t].pc = "connecting"
                     /\ callers[t].h = [conn |-> c, gen |-> conns[c].gen]

(* handle_connect: a connect that succeeds with nobody waiting is closed. *)
HandleConnect(c) ==
  /\ conns[c].st = "connecting"
  /\ \/ conns' = [conns EXCEPT ![c].st = IF Waited(c) THEN "open" ELSE "closing"]
     \/ conns' = [conns EXCEPT ![c].st = "failed"]
  /\ UNCHANGED <<slots, cursor, callers, pool_alive, faults>>

(* The peer closes, or an error is found: the runtime closes the connection. *)
PeerCloses(c) ==
  /\ conns[c].st = "open"
  /\ conns' = CloseIndex(conns, c)
  /\ UNCHANGED <<slots, cursor, callers, pool_alive, faults>>

(* handle_close: the slot is released and its generation bumped. *)
HandleClose(c) ==
  /\ conns[c].st \in {"closing", "failed"}
  /\ conns' = [conns EXCEPT ![c] = [gen |-> @.gen + 1, st |-> "free", mine |-> FALSE]]
  /\ UNCHANGED <<slots, cursor, callers, pool_alive, faults>>

(* A connection that is not the pool's is accepted or opened on the worker. *)
OtherOpens(c) ==
  /\ c \in FreeConns
  /\ conns' = [conns EXCEPT ![c].st = "open"]
  /\ UNCHANGED <<slots, cursor, callers, pool_alive, faults>>

PoolNext ==
  \/ \E t \in Callers : Client(t) \/ ConnectAll(t) \/ PollConnect(t) \/ PollAuth(t)
                        \/ Cancel(t) \/ DropGuard(t, TRUE) \/ Evict(t)
  \/ \E t \in Callers : "teardown" \in faults /\ DropGuard(t, FALSE)
  \/ \E i \in Indices : MarkDisconnected(i)
  \/ CloseAll
  \/ DropPool
  \/ \E c \in ConnSlots : HandleConnect(c) \/ PeerCloses(c) \/ HandleClose(c) \/ OtherOpens(c)

PoolSpec == PoolInit /\ [][PoolNext]_poolVars

-----------------------------------------------------------------------------
PoolTypeOK ==
  /\ slots \in [Indices -> {Disconnected, Lent} \union Handles]
  /\ cursor \in Indices
  /\ \A t \in Callers :
       /\ callers[t].pc \in {"idle", "connecting", "auth", "guard"}
       /\ callers[t].h \in Handles \union {NoHandle}
       /\ callers[t].pc \in {"auth", "guard"} => callers[t].h # NoHandle
  /\ \A c \in ConnSlots :
       conns[c].st \in {"free", "connecting", "open", "failed", "closing"}

Holders(i) ==
  {t \in Callers : callers[t].pc \in {"connecting", "auth", "guard"} /\ callers[t].idx = i}

(* The pool never shrinks: a slot marked Lent is held by a guard, or by a    *)
(* call still connecting it, whatever was cancelled, failed or dropped; and  *)
(* by only one of them unless close_all reset it under its holder.           *)
LentSlotIsHeld ==
  \A i \in Indices :
    pool_alive /\ slots[i] = Lent =>
                       /\ Holders(i) # {}
                       /\ "close_all" \notin faults => Cardinality(Holders(i)) = 1

Owned == {slots[i] : i \in {j \in Indices : slots[j] \notin {Disconnected, Lent}}}
         \union {callers[t].h : t \in Callers}

(* A connection the pool opened is in a slot, in a guard, or awaited by the  *)
(* call that opened it: whatever call races with it, no client is displaced  *)
(* and dropped with its socket open.  The faults are the ways the code does  *)
(* lose one: a failed AUTH, a future dropped with its connect completed, a   *)
(* guard dropped outside the executor, close_all over lent slots, and the    *)
(* pool dropped with idle connections.                                       *)
NoOpenConnectionUnowned ==
  faults = {} =>
    \A c \in ConnSlots : conns[c].st = "open" /\ conns[c].mine
                            => [conn |-> c, gen |-> conns[c].gen] \in Owned

(* Two callers never hold the same live client, and no client is lent out    *)
(* and idle at once: responses are positional, so sharing would swap them.   *)
OneOwner ==
  \A t \in Guards :
    /\ \A u \in Guards \ {t} : callers[u].h # callers[t].h
    /\ \A i \in Indices : slots[i] # callers[t].h

(* client() gives up only after looking at every slot, although the cursor   *)
(* moves under it while it awaits: the scan steps from a snapshot.           *)
GivesUpAfterEverySlot ==
  \A t \in Callers :
    callers[t].result \in {"AllConnectionsFailed", "PoolExhausted"}
      => callers[t].visited = Indices

(* Operations of the pool close no connection but their own: a stale handle  *)
(* never reaches close, which goes by index.  mark_disconnected and a call   *)
(* of Client::close on a guard (lib.rs:764) are the exceptions, and the step *)
(* names them.                                                               *)
ClosesOnlyItsOwn ==
  [][\A c \in ConnSlots :
       (conns[c].st = "open" /\ conns'[c].st = "closing" /\ ~conns[c].mine)
         => \/ PeerCloses(c)
            \/ \E i \in Indices : MarkDisconnected(i)
            \/ \E t \in Callers : Evict(t)]_poolVars

(* What Pool promises of its clients, whatever client(), connect_all,        *)
(* close_all, cancellations, drops and dead connections interleave: one      *)
(* owner each, none lost while open, no slot lost, and client() gives up     *)
(* only when nothing could be had.                                           *)
ClientsOwned ==
  /\ PoolTypeOK
  /\ OneOwner /\ LentSlotIsHeld /\ NoOpenConnectionUnowned
  /\ GivesUpAfterEverySlot
=============================================================================
