------------------------------- MODULE DiskIo -------------------------------
(***************************************************************************)
(* Disk I/O: files (ringline/src/fs.rs), direct I/O (direct_io.rs) and     *)
(* NVMe passthrough (nvme.rs), from the call that submits a command        *)
(* (handler.rs), through the ring or, on the mio backend, the pool of      *)
(* threads (disk_io_pool.rs), to the completion handler and the future the *)
(* task awaits.  The three share the executor's maps of waiters, results   *)
(* and parked buffers, keyed by disk_io_key.                               *)
(*                                                                         *)
(* d.calls[c] is the c-th command: fut is its future, at where the command *)
(* is ("sq" submitted, "kernel" executing, "cqe" complete, "done" reaped), *)
(* fd the descriptor it names and hit the file the kernel found there, buf *)
(* who keeps an owned buffer, got whose result the future returned.        *)
(* d.fds is the kernel's table: the fixed files of the ring, or the        *)
(* descriptors of the process.  The counters of commands in flight a file  *)
(* slot keeps are never read and are left out.                             *)
(*                                                                         *)
(* Two history fields are for the properties only: nth is the number of    *)
(* keys made before a call's, lapped that the call and another one 2^16    *)
(* keys away used the same key at once; early is that the file was closed  *)
(* before the command was looked up.                                       *)
(***************************************************************************)
EXTENDS Naturals, Sequences, FiniteSets, SequencesExt, FiniteSetsExt, TLC

CONSTANTS DISK_SEQ, DiskSetups

(* A setup: the backend, the kinds the n-th call may be of, the slots of a *)
(* file table and of a command slab, and what may happen besides:          *)
(* "ring", the submission queue is full; "open", a file does not open;     *)
(* "nul", a path holds a zero byte; "move", a future is handed to another  *)
(* task.                                                                   *)
ASSUME DiskAssumption ==
  /\ DISK_SEQ \in Nat \ {0}
  /\ \A s \in DiskSetups :
       /\ DOMAIN s = {"backend", "calls", "files", "cmds", "faults"}
       /\ s.backend \in {"uring", "mio"}
       /\ \A n \in DOMAIN s.calls : s.calls[n] \subseteq {"open", "read", "owned", "stat", "path", "direct", "nvme"}
       /\ s.faults \subseteq {"ring", "open", "nul", "move"}

VARIABLES dsetup, d

diskVars == <<dsetup, d>>

Subs == {"fs", "direct", "nvme"}
DiskTasks == {1, 2}
DiskOpens == 2          \* bound on the direct files and devices opened
NoFd == <<"none", 0>>
Fault(f) == f \in dsetup.faults
OnRing == dsetup.backend = "uring"

Removed(f, k) == [j \in DOMAIN f \ {k} |-> f[j]]

-----------------------------------------------------------------------------
(* File tables and command slabs: slots with a stack of the free ones.     *)

Countdown(n) == [i \in 1..n |-> n - i]

FileTable(n) ==
  [slot |-> [i \in 0 .. (n - 1) |-> [active |-> FALSE, gen |-> 0, fd |-> NoFd]], free |-> Countdown(n)]

AllocateFile(t) ==
  [t EXCEPT !.slot[Last(t.free)].active = TRUE, !.free = Front(t.free)]

ReleaseFile(t, i) ==
  [slot |-> [t.slot EXCEPT ![i] = [active |-> FALSE, gen |-> (@.gen + 1) % 2^16, fd |-> NoFd]],
   free |-> Append(t.free, i)]

CmdSlab(n) == [cmd |-> [j \in 0 .. (n - 1) |-> [in_use |-> FALSE, op |-> "read"]], free |-> Countdown(n)]

AllocateCmd(s, op) ==
  [cmd |-> [s.cmd EXCEPT ![Last(s.free)] = [in_use |-> TRUE, op |-> op]], free |-> Front(s.free)]

ReleaseCmd(s, j) == [cmd |-> [s.cmd EXCEPT ![j].in_use = FALSE], free |-> Append(s.free, j)]

InitDisk ==
  /\ dsetup \in DiskSetups
  /\ d = [tab |-> [s \in Subs |-> FileTable(dsetup.files)], slab |-> [s \in Subs |-> CmdSlab(dsetup.cmds)],
          calls |-> <<>>, waiters |-> <<>>, results |-> <<>>, graveyard |-> <<>>, stats |-> <<>>,
          opens |-> <<>>, seq |-> 0, sq |-> <<>>, fds |-> <<>>, objs |-> 0, handles |-> {}, ready |-> {},
          refused |-> 0]

(* Mutant: the key is the bare index in the slab. *)
DiskIoKeyBare(x, j) == <<0, j>>

(* The key of a completion: a sequence number of 16 bits beside the index  *)
(* in the slab.  seq is the number before it is cut to its width, which    *)
(* DISK_SEQ stands for.                                                    *)
DiskIoKey(x, j) == <<x.seq % DISK_SEQ, j>>

NextSeq(x) == [x EXCEPT !.seq = @ + 1]

ValidateSlotOnly(x, h) == x.tab[h.sub].slot[h.index].active

(* A handle is good while its slot holds the file it was made for. *)
Validate(x, h) ==
  LET s == x.tab[h.sub].slot[h.index] IN s.active /\ s.gen = h.gen

-----------------------------------------------------------------------------
(* Submission.  A call inserts its waiter as soon as its command is on the *)
(* way; the future is live until it returns or is dropped.                 *)

NewCall(t, sub, op, key, i, fd, obj) ==
  [sub |-> sub, op |-> op, key |-> key, file |-> i, gen |-> 0, fd |-> fd, obj |-> obj, task |-> t,
   fut |-> "live", at |-> "sq", hit |-> 0, res |-> "none", buf |-> IF op = "owned" THEN "future" ELSE "app",
   got |-> 0, meta |-> 0, nth |-> 0, lapped |-> FALSE, early |-> FALSE]

(* The calls that still use the key of a new one although DISK_SEQ keys    *)
(* were made since: unfinished, unread, or with a result left behind.      *)
LappedBy(x, call, nth) == {c \in DOMAIN x.calls :
  /\ x.calls[c].key = call.key /\ nth - x.calls[c].nth >= DISK_SEQ
  /\ x.calls[c].at # "done" \/ x.calls[c].fut = "live" \/ call.key \in DOMAIN x.results}

Issued(x, call) ==
  LET nth == x.seq - 1
      lapped == LappedBy(x, call, nth)
      calls == [c \in DOMAIN x.calls |-> [x.calls[c] EXCEPT !.lapped = @ \/ c \in lapped]]
  IN [x EXCEPT !.calls = Append(calls, [call EXCEPT !.nth = nth, !.lapped = lapped # {}]),
               !.sq = Append(@, Len(x.calls) + 1), !.waiters = (call.key :> call.task) @@ @]

(* A call that is refused; a setup bounds the calls, these included. *)
Refused(x) == [x EXCEPT !.refused = @ + 1]

(* The submission queue may have no room: the command slot is given back,  *)
(* the sequence number is not.                                             *)
RingIssue(x, t, sub, op, i, fd, obj) ==
  LET j == Last(x.slab[sub].free)
      call == NewCall(t, sub, op, DiskIoKey(x, j), i, fd, obj)
  IN IF x.slab[sub].free = <<>>
     THEN {}
     ELSE {Issued([NextSeq(x) EXCEPT !.slab[sub] = AllocateCmd(@, op)], call)}
            \union (IF Fault("ring") THEN {Refused(NextSeq(x))} ELSE {})

PoolIssue(x, t, sub, op, i, fd, obj) ==
  {Issued([x EXCEPT !.seq = @ + 1], NewCall(t, sub, op, <<x.seq, 0>>, i, fd, obj))}

DirectIo(x, t, h) ==
  IF Validate(x, h) THEN RingIssue(x, t, "direct", "rw", h.index, x.tab["direct"].slot[h.index].fd, h.obj) ELSE {}

NvmeCmd(x, t, h) ==
  IF Validate(x, h) THEN RingIssue(x, t, "nvme", "rw", h.index, x.tab["nvme"].slot[h.index].fd, h.obj) ELSE {}

FsReadWrite(x, t, h, op) ==
  IF Validate(x, h) THEN RingIssue(x, t, "fs", op, h.index, x.tab["fs"].slot[h.index].fd, h.obj) ELSE {}

FsStat(x, t) == RingIssue(x, t, "fs", "stat", 0, NoFd, 0)

FsPathOp(x, t) == RingIssue(x, t, "fs", "path", 0, NoFd, 0)

DirectIoMio(x, t, h) ==
  IF Validate(x, h) THEN PoolIssue(x, t, "direct", "rw", h.index, x.tab["direct"].slot[h.index].fd, h.obj) ELSE {}

FsReadWriteMio(x, t, h, op) ==
  IF Validate(x, h) THEN PoolIssue(x, t, "fs", op, h.index, x.tab["fs"].slot[h.index].fd, h.obj) ELSE {}

FsStatMio(x, t) == PoolIssue(x, t, "fs", "stat", 0, NoFd, 0)

FsPathOpMio(x, t) == PoolIssue(x, t, "fs", "path", 0, NoFd, 0)

(* An open takes its file slot first and gives it back when the path, the  *)
(* command slab or the submission queue fails it.                          *)
FsOpen(x, t) ==
  LET i == Last(x.tab["fs"].free)
      gen == x.tab["fs"].slot[i].gen
      held == [x EXCEPT !.tab["fs"] = AllocateFile(@), !.tab["fs"].slot[i].fd = <<"fs", i>>]
      back == [held EXCEPT !.tab["fs"] = ReleaseFile(@, i)]
      j == Last(x.slab["fs"].free)
      call == [NewCall(t, "fs", "open", DiskIoKey(x, j), i, <<"fs", i>>, 0) EXCEPT !.gen = gen]
  IN IF x.tab["fs"].free = <<>> THEN {}
     ELSE IF x.slab["fs"].free = <<>> THEN {Refused(back)}
     ELSE {Issued([NextSeq(held) EXCEPT !.slab["fs"] = AllocateCmd(@, "open")], call)}
            \union (IF Fault("nul") THEN {Refused(back)} ELSE {})
            \union (IF Fault("ring") THEN {Refused(NextSeq(back))} ELSE {})

FsOpenMio(x, t) ==
  LET i == Last(x.tab["fs"].free)
      gen == x.tab["fs"].slot[i].gen
      held == [x EXCEPT !.tab["fs"] = AllocateFile(@)]
      call == [NewCall(t, "fs", "open", <<x.seq, 0>>, i, NoFd, 0) EXCEPT !.gen = gen]
  IN IF x.tab["fs"].free = <<>> THEN {}
     ELSE {Issued([held EXCEPT !.seq = @ + 1, !.opens = (call.key :> i) @@ @], call)}
            \union (IF Fault("nul") THEN {Refused([held EXCEPT !.tab["fs"] = ReleaseFile(@, i)])} ELSE {})

-----------------------------------------------------------------------------
(* Direct files and NVMe devices are opened and closed by the call itself. *)

FdsOpen(x) == {n \in 1..Len(x.calls) + x.objs : <<"fd", n>> \in DOMAIN x.fds}

LowestFd(x) == <<"fd", CHOOSE n \in 1 .. (x.objs + 1) :
                 n \notin FdsOpen(x) /\ \A m \in 1 .. (n - 1) : m \in FdsOpen(x)>>

Handle(sub, i, gen, obj) == [sub |-> sub, index |-> i, gen |-> gen, obj |-> obj, closed |-> FALSE]

(* A path with a zero byte leaves the function after the slot was taken. *)
OpenNow(x, sub, fd) ==
  LET i == Last(x.tab[sub].free)
      held == [x EXCEPT !.tab[sub] = AllocateFile(@)]
      obj == x.objs + 1
  IN IF x.tab[sub].free = <<>> THEN {}
     ELSE {[held EXCEPT !.tab[sub].slot[i].fd = fd, !.fds = (fd :> obj) @@ @, !.objs = obj,
                        !.handles = @ \union {Handle(sub, i, x.tab[sub].slot[i].gen, obj)}]}
            \union (IF Fault("nul") THEN {Refused(held)} ELSE {})
            \union (IF Fault("open") THEN {Refused([held EXCEPT !.tab[sub] = ReleaseFile(@, i)])} ELSE {})

OpenDirectIoFile(x) == OpenNow(x, "direct", <<"direct", Last(x.tab["direct"].free)>>)

OpenNvmeDevice(x) == OpenNow(x, "nvme", <<"nvme", Last(x.tab["nvme"].free)>>)

OpenDirectIoFileMio(x) == OpenNow(x, "direct", LowestFd(x))

NamesFile(call) == call.op \in {"rw", "read", "owned"}

(* A command on h that nobody has looked the file up for yet. *)
ToBeSubmitted(call, h) ==
  /\ NamesFile(call) /\ call.sub = h.sub /\ call.obj = h.obj
  /\ call.at \in (IF OnRing THEN {"sq"} ELSE {"sq", "kernel"})

(* Close forgets the descriptor and releases the slot, whatever commands   *)
(* are queued on it.  The kernel keeps the file for the commands it has    *)
(* looked up.                                                              *)
Closed(x, h) ==
  [x EXCEPT !.fds = Removed(@, x.tab[h.sub].slot[h.index].fd),
            !.tab[h.sub] = ReleaseFile(@, h.index),
            !.calls = [c \in DOMAIN @ |-> [@[c] EXCEPT !.early = @ \/ ToBeSubmitted(x.calls[c], h)]],
            !.handles = (@ \ {h}) \union {[h EXCEPT !.closed = TRUE]}]

CloseHandle(x, h) == IF Validate(x, h) THEN {Closed(x, h)} ELSE {}

-----------------------------------------------------------------------------
(* Futures. *)

TakeResult(x, c) ==
  LET call == x.calls[c]
      key == call.key
      r == x.results[key]
      taken == [x EXCEPT !.results = Removed(@, key), !.stats = Removed(@, key),
                         !.calls[c].fut = "ready", !.calls[c].got = r.call, !.calls[c].res = r.res,
                         !.calls[c].buf = IF call.op = "owned" THEN "returned" ELSE @,
                         !.calls[c].meta = IF call.op = "stat" /\ key \in DOMAIN x.stats THEN x.stats[key] ELSE 0]
  IN IF call.op = "open" /\ r.res = "ok"
     THEN [taken EXCEPT !.handles = @ \union {Handle("fs", call.file, call.gen, call.hit)}]
     ELSE taken

(* A future that finds no result waits under the task that polls it. *)
PollDiskIo(x, c) ==
  IF x.calls[c].key \in DOMAIN x.results THEN TakeResult(x, c)
  ELSE [x EXCEPT !.waiters = (x.calls[c].key :> x.calls[c].task) @@ @]

ParkOrDropFrees(x, c) ==
  [x EXCEPT !.results = Removed(@, x.calls[c].key), !.calls[c].buf = "freed"]

(* An owned buffer outlives its future until the command completes. *)
ParkOrDrop(x, c) ==
  LET key == x.calls[c].key IN
  IF key \in DOMAIN x.results
  THEN [x EXCEPT !.results = Removed(@, key), !.calls[c].buf = "freed"]
  ELSE [x EXCEPT !.graveyard = (key :> c) @@ @, !.calls[c].buf = "grave"]

DropFuture(x, c) ==
  LET call == x.calls[c]
      gone == [x EXCEPT !.waiters = Removed(@, call.key), !.calls[c].fut = "dropped",
                        !.stats = IF call.op = "stat" THEN Removed(@, call.key) ELSE @]
  IN IF call.op = "owned" THEN ParkOrDrop(gone, c) ELSE gone

-----------------------------------------------------------------------------
(* Completion. *)

WakeDiskIo(x, key, c, res) ==
  IF key \in DOMAIN x.graveyard
  THEN [x EXCEPT !.calls[x.graveyard[key]].buf = "freed", !.graveyard = Removed(@, key)]
  ELSE [x EXCEPT !.results = (key :> [call |-> c, res |-> res]) @@ @,
                 !.ready = IF key \in DOMAIN x.waiters THEN @ \union {x.waiters[key]} ELSE @,
                 !.waiters = Removed(@, key)]

(* A completion whose command slot is free is ignored. *)
HandleDirectIo(x, c) ==
  LET call == x.calls[c]
      j == call.key[2]
  IN IF ~x.slab["direct"].cmd[j].in_use THEN x
     ELSE WakeDiskIo([x EXCEPT !.slab["direct"] = ReleaseCmd(@, j)], call.key, c, call.res)

(* A positive status of the device is an error. *)
HandleNvmeCmd(x, c) ==
  LET call == x.calls[c]
      j == call.key[2]
  IN IF ~x.slab["nvme"].cmd[j].in_use THEN x
     ELSE WakeDiskIo([x EXCEPT !.slab["nvme"] = ReleaseCmd(@, j)], call.key, c,
                     IF call.res = "status" THEN "err" ELSE call.res)

HandleFs(x, c) ==
  LET call == x.calls[c]
      j == call.key[2]
      op == x.slab["fs"].cmd[j].op
      stat == [x EXCEPT !.stats = IF op = "stat" /\ call.res = "ok" THEN (call.key :> c) @@ @ ELSE @]
      file == [stat EXCEPT !.tab["fs"] = IF op = "open" /\ call.res = "err" THEN ReleaseFile(@, call.file) ELSE @]
  IN IF ~x.slab["fs"].cmd[j].in_use THEN x
     ELSE WakeDiskIo([file EXCEPT !.slab["fs"] = ReleaseCmd(@, j)], call.key, c, call.res)

(* The mio worker takes a response of the pool: an open that succeeded     *)
(* stores its descriptor in the slot.                                      *)
DrainDiskIo(x, c) ==
  LET call == x.calls[c]
      opened == [x EXCEPT !.opens = Removed(@, call.key),
                          !.tab["fs"] = IF call.res = "ok" THEN [@ EXCEPT !.slot[call.file].fd = call.fd]
                                        ELSE ReleaseFile(@, call.file)]
      stat == [x EXCEPT !.stats = IF call.op = "stat" /\ call.res = "ok" THEN (call.key :> c) @@ @ ELSE @]
  IN WakeDiskIo(IF call.key \in DOMAIN x.opens THEN opened ELSE stat, call.key, c, call.res)

-----------------------------------------------------------------------------
(* The kernel, and the threads of the pool. *)

FileAt(x, fd) == IF fd \in DOMAIN x.fds THEN x.fds[fd] ELSE 0

(* The worker enters the kernel, which looks up the files of the commands. *)
EnterKernel(x) ==
  [x EXCEPT !.sq = <<>>,
            !.calls = [c \in DOMAIN @ |-> IF @[c].at # "sq" THEN @[c]
                         ELSE [@[c] EXCEPT !.at = "kernel", !.hit = FileAt(x, x.calls[c].fd)]]]

(* A thread of the pool takes the next request and makes its system call,  *)
(* which looks the descriptor up then.                                     *)
TakeRequest(x) == [x EXCEPT !.sq = Tail(@), !.calls[Head(x.sq)].at = "kernel"]

Executed(x, c, res) ==
  LET call == x.calls[c]
      obj == x.objs + 1
      fd == IF OnRing THEN call.fd ELSE LowestFd(x)
      hit == IF OnRing THEN call.hit ELSE FileAt(x, call.fd)
  IN IF call.op = "open" /\ res = "ok"
     THEN [x EXCEPT !.fds = (fd :> obj) @@ @, !.objs = obj,
                    !.calls[c] = [@ EXCEPT !.at = "cqe", !.hit = obj, !.fd = fd, !.res = "ok"]]
     ELSE [x EXCEPT !.calls[c] = [@ EXCEPT !.at = "cqe", !.hit = hit,
                                           !.res = IF NamesFile(call) /\ hit = 0 THEN "err" ELSE res]]

Reaped(x, c) ==
  LET done == [x EXCEPT !.calls[c].at = "done"] IN
  IF ~OnRing THEN DrainDiskIo(done, c)
  ELSE CASE x.calls[c].sub = "fs" -> HandleFs(done, c)
         [] x.calls[c].sub = "direct" -> HandleDirectIo(done, c)
         [] x.calls[c].sub = "nvme" -> HandleNvmeCmd(done, c)

-----------------------------------------------------------------------------
DiskBecomes(S) == /\ d' \in S
                  /\ UNCHANGED dsetup

CallsMade == Len(d.calls) + d.refused
MayCall(k) == CallsMade < Len(dsetup.calls) /\ k \in dsetup.calls[CallsMade + 1]
WillCall(k) == \E n \in DOMAIN dsetup.calls : n > CallsMade /\ k \in dsetup.calls[n]

(* Task 1 makes the calls; task 2 may be given their futures. *)
CallFs(t) ==
  \/ MayCall("open") /\ DiskBecomes(IF OnRing THEN FsOpen(d, t) ELSE FsOpenMio(d, t))
  \/ MayCall("stat") /\ DiskBecomes(IF OnRing THEN FsStat(d, t) ELSE FsStatMio(d, t))
  \/ MayCall("path") /\ DiskBecomes(IF OnRing THEN FsPathOp(d, t) ELSE FsPathOpMio(d, t))

CallFile(t) == \E h \in d.handles : \E op \in {"read", "owned"} :
  /\ h.sub = "fs" /\ MayCall(op)
  /\ DiskBecomes(IF OnRing THEN FsReadWrite(d, t, h, op) ELSE FsReadWriteMio(d, t, h, op))

CallDevice(t) == \E h \in d.handles :
  \/ h.sub = "direct" /\ MayCall("direct")
       /\ DiskBecomes(IF OnRing THEN DirectIo(d, t, h) ELSE DirectIoMio(d, t, h))
  \/ h.sub = "nvme" /\ MayCall("nvme") /\ DiskBecomes(NvmeCmd(d, t, h))

OpenDevice ==
  /\ d.objs < DiskOpens
  /\ \/ WillCall("direct") /\ DiskBecomes(IF OnRing THEN OpenDirectIoFile(d) ELSE OpenDirectIoFileMio(d))
     \/ WillCall("nvme") /\ OnRing /\ DiskBecomes(OpenNvmeDevice(d))

CloseFile == \E h \in d.handles : DiskBecomes(CloseHandle(d, h))

LiveFutures(t) == {c \in DOMAIN d.calls : d.calls[c].fut = "live" /\ d.calls[c].task = t}

(* The executor polls a task, and the task its futures. *)
RunTask(t) ==
  /\ LiveFutures(t) # {}
  /\ DiskBecomes({FoldSet(LAMBDA c, x : PollDiskIo(x, c), [d EXCEPT !.ready = @ \ {t}], LiveFutures(t))})

(* A future is handed to another task, which the executor will poll. *)
MoveFuture(c, t) ==
  /\ Fault("move") /\ d.calls[c].fut = "live" /\ d.calls[c].task # t
  /\ DiskBecomes({[d EXCEPT !.calls[c].task = t, !.ready = @ \union {t}]})

CancelFuture(c) ==
  /\ d.calls[c].fut = "live"
  /\ DiskBecomes({DropFuture(d, c)})

(* The ring, the threads and the worker's completions. *)
EnterRing == OnRing /\ d.sq # <<>> /\ DiskBecomes({EnterKernel(d)})

PoolThread == ~OnRing /\ d.sq # <<>> /\ DiskBecomes({TakeRequest(d)})

ExecuteCommand(c) ==
  /\ d.calls[c].at = "kernel"
  /\ \E res \in {"ok", "err"} \union (IF d.calls[c].sub = "nvme" THEN {"status"} ELSE {}) :
       DiskBecomes({Executed(d, c, res)})

ReapCommand(c) == d.calls[c].at = "cqe" /\ DiskBecomes({Reaped(d, c)})

DiskNext ==
  \/ CallFs(1) \/ CallFile(1) \/ CallDevice(1)
  \/ \E t \in DiskTasks : RunTask(t)
  \/ OpenDevice
  \/ CloseFile
  \/ EnterRing
  \/ PoolThread
  \/ \E c \in DOMAIN d.calls : MoveFuture(c, 2) \/ CancelFuture(c) \/ ExecuteCommand(c) \/ ReapCommand(c)

DiskSpec == InitDisk /\ [][DiskNext]_diskVars

-----------------------------------------------------------------------------
(* A future returns the result of its own command, made on the file its    *)
(* handle was opened for, and an open handle keeps naming that file:       *)
(* whatever slots, descriptors and keys were reused in between, by the     *)
(* same of files, direct I/O and NVMe or by another of them (disk_io_key,  *)
(* validate_*, handle_fs).  Excepted are two operations that use one key   *)
(* at once, which takes 2^16 operations in between (a dropped future that  *)
(* owns no buffer leaves its result in the map for good,                   *)
(* runtime/mod.rs:821); and, for the file only, a command that is still    *)
(* queued when its file is closed, which no close checks                   *)
(* (handler.rs:1921, 3181, 3363).                                          *)
OwnResult ==
  /\ \A c \in DOMAIN d.calls : LET call == d.calls[c] IN
       call.fut = "ready" /\ ~call.lapped =>
         /\ call.got = c
         /\ call.op = "stat" /\ call.res = "ok" => call.meta = c
         /\ NamesFile(call) /\ call.res = "ok" /\ ~call.early => call.hit = call.obj
  /\ \A h \in d.handles :
       ~h.closed /\ (h.sub = "fs" => \A c \in DOMAIN d.calls : d.calls[c].op = "open" => ~d.calls[c].lapped) =>
         Validate(d, h) /\ FileAt(d, d.tab[h.sub].slot[h.index].fd) = h.obj

(* While the kernel or a thread of the pool may touch an owned buffer, its *)
(* live future or the graveyard keeps it, and the graveyard frees it when  *)
(* the command is done (park_or_drop, wake_disk_io).  Two operations with  *)
(* one key are excepted, as above.                                         *)
BufferOutlivesKernel ==
  \A c \in DOMAIN d.calls : LET call == d.calls[c] IN
    call.op = "owned" /\ ~call.lapped =>
      /\ call.at # "done" => \/ call.buf = "future" /\ call.fut = "live"
                             \/ call.buf = "grave" /\ call.fut = "dropped"
      /\ call.at = "done" => call.buf # "grave"

(* A live future is served: while its command is on the way the task that  *)
(* awaits it is registered or about to run, and once it is reaped the      *)
(* result is there and the task is about to run.  Each command on the ring *)
(* holds its own slot of the slab, and no other slot is taken.  For the    *)
(* future, two operations with one key are excepted, as above.             *)
NoStrandedFuture ==
  /\ \A c \in DOMAIN d.calls : LET call == d.calls[c] IN
       call.fut = "live" /\ ~call.lapped =>
         IF call.at = "done"
         THEN call.key \in DOMAIN d.results /\ call.task \in d.ready
         ELSE \/ call.task \in d.ready
              \/ call.key \in DOMAIN d.waiters /\ d.waiters[call.key] = call.task
  /\ OnRing => \A s \in Subs, j \in 0 .. (dsetup.cmds - 1) :
       Cardinality({c \in DOMAIN d.calls : d.calls[c].sub = s /\ d.calls[c].key[2] = j /\ d.calls[c].at # "done"})
         = IF d.slab[s].cmd[j].in_use THEN 1 ELSE 0

(* Every disk I/O future gets its own result, no buffer is freed under the *)
(* kernel and no future waits for ever: the three properties above, with   *)
(* what they except.                                                       *)
ResultsDelivered == OwnResult /\ BufferOutlivesKernel /\ NoStrandedFuture
=============================================================================
