-------------------------- MODULE ClipboardPersist --------------------------
(***************************************************************************)
(* Clipboard persistence of a seat: src/src/input/selection_persist.c, the *)
(* selection requests of selection.c and the writers and the compositor's  *)
(* own selections of selection_data.c.                                     *)
(*                                                                         *)
(* Whenever a client sets the selection the compositor asks it for every   *)
(* mime type and reads the answers from pipes.  When the selection becomes *)
(* empty an idle callback puts what was read completely in its place.      *)
(*                                                                         *)
(* Sizes are counted in units of PERSIST_READ_CHUNK.  Contents are numbered*)
(* in the order they are put on the clipboard; a selection taken over      *)
(* keeps the number of the content it offers.                              *)
(***************************************************************************)
EXTENDS Integers, Sequences, FiniteSetsExt

CONSTANTS
  Clients,
  MimeList,   \* the mime types worth caching, in the order a source lists them
  Length,     \* mime type -> size of a client's data
  ShotSize,   \* size of the compositor's own data (a screenshot)
  Limit,      \* PERSIST_MAX_SIZE
  PipeSize,   \* capacity of a pipe
  Readers,    \* transfers to pasting clients
  NoCache,    \* NULL manager->cache
  MaxCopies   \* bound: contents put on the clipboard

Mimes == Range(MimeList)

ASSUME ClipboardAssumption ==
  /\ Clients \cap {"nobody", "persist", "compositor"} = {}
  /\ Length \in [Mimes -> Nat \ {0}]
  /\ {ShotSize, Limit, PipeSize, MaxCopies} \subseteq Nat \ {0}
  /\ MimeList \in Seq(Mimes) /\ IsInjective(MimeList)   \* a source offers a type once

(* struct persist_entry: none once it is destroyed; cap is its buffer. *)
Entries ==
  [st : {"none", "reading", "complete", "failed"}, size : Nat, cap : Nat,
   avail : 0..PipeSize, left : Nat, open : BOOLEAN]

(* struct persist_selection. *)
Caches ==
  [id : 1..MaxCopies, owned : BOOLEAN, install : BOOLEAN, managed : BOOLEAN, total : Nat,
   entry : [Mimes -> Entries]]

(* struct selection_writer with the pipe it writes to. *)
Transfers ==
  [id : 0..MaxCopies, size : Nat, off : Nat, buf : 0..PipeSize, writing : BOOLEAN]

ASSUME NoCacheAssumption == NoCache \notin Caches

VARIABLES
  sel,       \* wlr_seat->selection_source: [by, id]
  cache,     \* manager->cache (of the seat, once the manager is gone)
  idle,      \* contents whose cache a pending idle callback points to
  alive,     \* clients connected
  seat,      \* "up", "orphaned" (manager freed) or "gone"
  paste,     \* reader -> its transfer
  copies,    \* contents put on the clipboard so far
  lastCopy    \* history: the last of them a client put there

vars == <<sel, cache, idle, alive, seat, paste, copies, lastCopy>>

NoSelection == [by |-> "nobody", id |-> 0]
NoPaste == [id |-> 0, size |-> 0, off |-> 0, buf |-> 0, writing |-> FALSE]
NoEntry == [st |-> "none", size |-> 0, cap |-> 0, avail |-> 0, left |-> 0, open |-> FALSE]

Init ==
  /\ sel = NoSelection
  /\ cache = NoCache
  /\ idle = {}
  /\ alive = Clients
  /\ seat = "up"
  /\ paste = [r \in Readers |-> NoPaste]
  /\ copies = 0
  /\ lastCopy = 0
-----------------------------------------------------------------------------
(* Reading a source into the cache.                                        *)

(* persist_entry_create for each mime type the source offers; no entry, no
   cache.  left is what the client will write, avail what is in the pipe. *)
NewCache(id, offers) ==
  IF offers = {} THEN NoCache
  ELSE [id |-> id, owned |-> FALSE, install |-> FALSE, managed |-> TRUE, total |-> 0,
        entry |-> [m \in Mimes |->
          IF m \in offers
          THEN [NoEntry EXCEPT !.st = "reading", !.left = Length[m], !.open = TRUE]
          ELSE NoEntry]]

(* The capacities an entry goes through: the first one, doubled each time. *)
Cap[i \in 0..(Limit + PipeSize)] == IF i = 0 THEN 1 ELSE 2 * Cap[i - 1]
Caps == {Cap[i] : i \in 0..(Limit + PipeSize)}

(* A buffer is never left full: it grows before the read that finds EOF. *)
CapFor(n) == Min({c \in Caps : c > n})

(* Mutant: the buffer that is being replaced is counted twice less. *)
Allowed_Twice(c, e, cap) == c.total - 2 * e.cap + cap <= Limit

(* The limit on the buffers of all the entries. *)
Allowed(c, e, cap) == c.total - e.cap + cap <= Limit

(* persist_entry_drain: the cache c after everything in the pipe of m was
   read.  A buffer grows step by step, so a failed entry keeps the largest
   one that was allowed. *)
Drain(c, m) ==
  LET e == c.entry[m]
      n == e.size + e.avail
      grown == {x \in Caps : x > e.cap /\ Allowed(c, e, x)}
      largest == Max(grown \cup {e.cap})
      Kept(cap, changed) == [c EXCEPT !.total = @ - e.cap + cap, !.entry[m] = changed]
  IN IF e.st # "reading" THEN c
     ELSE IF CapFor(n) > e.cap /\ ~Allowed(c, e, CapFor(n))
     THEN Kept(largest, [e EXCEPT !.st = "failed", !.size = largest, !.cap = largest,
                                  !.avail = 0, !.left = 0, !.open = FALSE])
     ELSE Kept(CapFor(n), [e EXCEPT !.st = IF e.open THEN "reading" ELSE "complete",
                                    !.size = n, !.cap = CapFor(n), !.avail = 0])

(* Mutant: the end of the data alone does not wake the reader. *)
Ready_DataOnly(e) == e.st = "reading" /\ e.avail > 0

(* The event source of a pipe fires: data, or the write end was closed. *)
Ready(e) == e.st = "reading" /\ (e.avail > 0 \/ ~e.open)

(* handle_readable. *)
Readable(m) ==
  /\ seat = "up" /\ cache # NoCache
  /\ Ready(cache.entry[m])
  /\ cache' = Drain(cache, m)
  /\ UNCHANGED <<sel, idle, alive, seat, paste, copies, lastCopy>>

(* handle_readable when reading or growing the buffer fails. *)
ReadableFails(m) ==
  /\ seat = "up" /\ cache # NoCache
  /\ Ready(cache.entry[m])
  /\ cache' = [cache EXCEPT !.entry[m] = [@ EXCEPT !.st = "failed", !.avail = 0,
                                                   !.left = 0, !.open = FALSE]]
  /\ UNCHANGED <<sel, idle, alive, seat, paste, copies, lastCopy>>

(* The client writes to the pipe it was sent, and closes it: when it is done,
   or earlier when it dies. *)
Write(m) ==
  /\ cache # NoCache
  /\ cache.entry[m].open /\ cache.entry[m].left > 0
  /\ cache.entry[m].avail < PipeSize
  /\ cache' = [cache EXCEPT !.entry[m].left = @ - 1, !.entry[m].avail = @ + 1]
  /\ UNCHANGED <<sel, idle, alive, seat, paste, copies, lastCopy>>

CloseEnd(m) ==
  /\ cache # NoCache
  /\ cache.entry[m].open
  /\ cache' = [cache EXCEPT !.entry[m].left = 0, !.entry[m].open = FALSE]
  /\ UNCHANGED <<sel, idle, alive, seat, paste, copies, lastCopy>>
-----------------------------------------------------------------------------
(* Changes of the selection.                                               *)

(* selection_writers_finish: the source of content id is destroyed. *)
Finished(p, id) ==
  [r \in Readers |-> IF p[r].id = id THEN [p[r] EXCEPT !.writing = FALSE] ELSE p[r]]

(* Mutant: the idle callback stays behind. *)
WithoutInstall_Kept(i, c) == i

(* persist_source_destroy removes the cache's idle callback. *)
WithoutInstall(i, c) == IF c = NoCache THEN i ELSE i \ {c.id}

(* handle_set_selection for a client's source: a new cache in any case. *)
Recached(id, offers) == NewCache(id, offers)

(* handle_request_set_selection, wlr_seat_set_selection and then
   handle_set_selection: the source before it is destroyed. *)
Copy(c, offers) ==
  /\ seat = "up" /\ c \in alive /\ copies < MaxCopies
  /\ copies' = copies + 1 /\ lastCopy' = copies + 1
  /\ sel' = [by |-> c, id |-> copies + 1]
  /\ paste' = Finished(paste, sel.id)
  /\ cache' = Recached(copies + 1, offers)
  /\ idle' = WithoutInstall(idle, cache)
  /\ UNCHANGED <<alive, seat>>

(* seat_set_selection_data: a selection of the compositor.  Its source is not
   cached; a cache of a client's content stays unless it is the selection that
   is being replaced. *)
Screenshot ==
  /\ seat = "up" /\ copies < MaxCopies
  /\ copies' = copies + 1
  /\ sel' = [by |-> "compositor", id |-> copies + 1]
  /\ paste' = Finished(paste, sel.id)
  /\ IF sel.by = "persist"
     THEN cache' = NoCache /\ idle' = WithoutInstall(idle, cache)
     ELSE UNCHANGED <<cache, idle>>
  /\ UNCHANGED <<alive, seat, lastCopy>>

(* Mutant: a cache that is still being read is not taken over. *)
Schedulable_Read(c) ==
  c # NoCache /\ ~c.owned /\ ~c.install /\ \A m \in Mimes : c.entry[m].st # "reading"

(* The cache may take over and its idle callback is not pending yet. *)
Schedulable(c) == c # NoCache /\ ~c.owned /\ ~c.install

(* handle_set_selection without a source: the cache takes over, from an idle
   callback. *)
Emptied ==
  /\ sel' = NoSelection
  /\ paste' = Finished(paste, sel.id)
  /\ IF sel.by = "persist"
     THEN cache' = NoCache /\ idle' = WithoutInstall(idle, cache)
     ELSE IF Schedulable(cache)
     THEN cache' = [cache EXCEPT !.install = TRUE] /\ idle' = idle \cup {cache.id}
     ELSE UNCHANGED <<cache, idle>>

(* A client sets an empty selection. *)
Clear ==
  /\ seat = "up" /\ sel # NoSelection /\ alive # {}
  /\ Emptied
  /\ UNCHANGED <<alive, seat, copies, lastCopy>>

(* A client disconnects; its data sources go with it. *)
Disconnect(c) ==
  /\ seat = "up" /\ c \in alive
  /\ alive' = alive \ {c}
  /\ IF sel.by = c THEN Emptied ELSE UNCHANGED <<sel, cache, idle, paste>>
  /\ UNCHANGED <<seat, copies, lastCopy>>

(* Mutant: an entry that is still being read is offered. *)
Usable_Reading(e) == e.st # "failed" /\ e.size > 0

(* The entries handle_install keeps. *)
Usable(e) == e.st = "complete" /\ e.size > 0

(* Mutant: a newer selection is replaced. *)
Taken_Never == FALSE

(* The selection has a new holder by the time the idle callback runs. *)
Taken == sel # NoSelection

(* persist->install = NULL: the idle callback is gone once it has run. *)
Uninstalled(c) == [c EXCEPT !.install = FALSE]

(* The entry handle_install comes to in round i: the last one created is the
   first in the list. *)
Round(i) == MimeList[Len(MimeList) + 1 - i]

(* The cache c after the first rounds of the loop of handle_install. *)
Drained(c) ==
  LET drained[i \in 0..Len(MimeList)] ==
        IF i = 0 THEN c
        ELSE CHOOSE d \in {Drain(x, Round(i)) : x \in {drained[i - 1]}} : TRUE
  IN drained   \* Drain of the round before, which is evaluated once

(* The cache d once unusable entries are destroyed. *)
Harvest(d) ==
  [d EXCEPT !.entry = [m \in Mimes |-> IF Usable(d.entry[m]) THEN d.entry[m] ELSE NoEntry]]

(* handle_install. *)
Install ==
  /\ seat = "up" /\ cache # NoCache /\ cache.id \in idle
  /\ idle' = idle \ {cache.id}
  /\ IF Taken
     THEN cache' = Uninstalled(cache) /\ UNCHANGED <<sel, paste>>
     ELSE \E d \in {Drained(cache)[Len(MimeList)]} : \E h \in {Harvest(d)} :
       IF \A m \in Mimes : h.entry[m] = NoEntry
       THEN cache' = NoCache /\ UNCHANGED <<sel, paste>>
       ELSE /\ cache' = [Uninstalled(h) EXCEPT !.owned = TRUE]
            /\ sel' = [by |-> "persist", id |-> h.id]
            /\ paste' = Finished(paste, sel.id)
  /\ UNCHANGED <<alive, seat, copies, lastCopy>>
-----------------------------------------------------------------------------
(* Transfers out of the compositor.                                        *)

(* Mutant: a full pipe counts as finished. *)
Flush_Once(t) ==
  LET n == Min({t.size - t.off, PipeSize - t.buf})
  IN [t EXCEPT !.off = @ + n, !.buf = @ + n, !.writing = FALSE]

(* Mutant: the room in the pipe is ignored. *)
Flush_All(t) == [t EXCEPT !.off = t.size, !.buf = @ + t.size - t.off, !.writing = FALSE]

(* selection_writer_flush: write until done or the pipe is full; the writer
   is destroyed when done. *)
Flush(t) ==
  LET n == Min({t.size - t.off, PipeSize - t.buf})
  IN [t EXCEPT !.off = @ + n, !.buf = @ + n, !.writing = (t.off + n < t.size)]

(* persist_source_send and selection_data_send: a client pastes.  For a type
   the cache does not have the pipe is closed at once. *)
Paste(r) ==
  /\ seat = "up" /\ paste[r] = NoPaste
  /\ \/ /\ sel.by = "persist"
        /\ \E m \in Mimes : paste' = [paste EXCEPT ![r] =
             Flush([NoPaste EXCEPT !.id = sel.id, !.size = cache.entry[m].size])]
     \/ /\ sel.by = "compositor"
        /\ paste' = [paste EXCEPT ![r] =
             Flush([NoPaste EXCEPT !.id = sel.id, !.size = ShotSize])]
  /\ UNCHANGED <<sel, cache, idle, alive, seat, copies, lastCopy>>

(* handle_writable. *)
Writable(r) ==
  /\ seat = "up" /\ paste[r].writing
  /\ paste[r].buf < PipeSize
  /\ paste' = [paste EXCEPT ![r] = Flush(@)]
  /\ UNCHANGED <<sel, cache, idle, alive, seat, copies, lastCopy>>

(* The pasting client reads, sees the end of the data, or gives up; a write to
   the pipe it closed fails, which also destroys the writer. *)
Read(r) ==
  /\ paste[r].buf > 0
  /\ paste' = [paste EXCEPT ![r].buf = @ - 1]
  /\ UNCHANGED <<sel, cache, idle, alive, seat, copies, lastCopy>>

ReaderDone(r) ==
  /\ paste[r] # NoPaste
  /\ paste' = [paste EXCEPT ![r] = NoPaste]
  /\ UNCHANGED <<sel, cache, idle, alive, seat, copies, lastCopy>>
-----------------------------------------------------------------------------
(* The seat goes away, in two stages of one callback.                      *)

(* An installed source belongs to the wlr_seat and is only unlinked. *)
Orphaned(c) == [c EXCEPT !.managed = FALSE]

(* handle_seat_destroy. *)
SeatDestroy ==
  /\ seat = "up"
  /\ seat' = "orphaned"
  /\ IF cache # NoCache /\ cache.owned
     THEN cache' = Orphaned(cache) /\ UNCHANGED idle
     ELSE cache' = NoCache /\ idle' = WithoutInstall(idle, cache)
  /\ UNCHANGED <<sel, alive, paste, copies, lastCopy>>

(* wlr_seat_destroy destroys the selection, persist_source_destroy with it. *)
WlrSeatDestroy ==
  /\ seat = "orphaned"
  /\ seat' = "gone"
  /\ sel' = NoSelection
  /\ paste' = Finished(paste, sel.id)
  /\ cache' = NoCache /\ idle' = WithoutInstall(idle, cache)
  /\ UNCHANGED <<alive, copies, lastCopy>>

Next ==
  \/ \E c \in Clients : Disconnect(c) \/ \E offers \in SUBSET Mimes : Copy(c, offers)
  \/ Screenshot \/ Clear \/ Install
  \/ \E m \in Mimes : Write(m) \/ CloseEnd(m) \/ Readable(m) \/ ReadableFails(m)
  \/ \E r \in Readers : Paste(r) \/ Writable(r) \/ Read(r) \/ ReaderDone(r)
  \/ SeatDestroy \/ WlrSeatDestroy

(* The event loop runs idle callbacks and ready descriptors. *)
Fairness ==
  /\ WF_vars(Install)
  /\ \A m \in Mimes : WF_vars(Readable(m))

Spec == Init /\ [][Next]_vars /\ Fairness
-----------------------------------------------------------------------------
(* Properties.                                                             *)

(* The sum of the sizes k[m] for all the mime types m. *)
Running(k) ==
  LET sum[i \in 0..Len(MimeList)] == IF i = 0 THEN 0 ELSE sum[i - 1] + k[MimeList[i]]
  IN sum
Sum(k) == Running(k)[Len(MimeList)]

(* Every variable has its type. *)
TypeOK ==
  /\ sel \in [by : Clients \cup {"nobody", "persist", "compositor"}, id : 0..MaxCopies]
  /\ cache \in Caches \cup {NoCache}
  /\ idle \subseteq 1..MaxCopies
  /\ alive \subseteq Clients
  /\ seat \in {"up", "orphaned", "gone"}
  /\ paste \in [Readers -> Transfers]
  /\ {copies, lastCopy} \subseteq 0..MaxCopies

(* Nothing outlives what it points to, or outgrows its limit
   (PERSIST_MAX_SIZE, for the buffers of a cache together): the idle callback of the takeover points
   to the cache that is there, and persist->install says whether it is pending;
   a transfer in progress sends data of the selection that is set
   (selection_writers_finish); the source that outlives its manager does not
   point to it (the comment on persist_source_destroy). *)
NothingDangles ==
  /\ TypeOK
  /\ cache # NoCache =>
       /\ cache.total <= Limit
       /\ Sum([m \in Mimes |-> cache.entry[m].cap]) <= cache.total
  /\ idle = {i \in 1..MaxCopies : cache # NoCache /\ cache.install /\ cache.id = i}
  /\ \A r \in Readers : paste[r].writing => sel.id = paste[r].id
  /\ cache # NoCache => (cache.managed <=> seat = "up")

(* A selection taken over is the cache, offers only data that was read to its
   end, and is what a client put on the clipboard last (handle_install). *)
OfferIsWhole ==
  sel.by = "persist" =>
    /\ cache # NoCache /\ cache.owned
    /\ sel.id = cache.id /\ sel.id = lastCopy
    /\ \A m \in Mimes : cache.entry[m] = NoEntry \/
         (Usable(cache.entry[m]) /\ cache.entry[m].avail = 0 /\ ~cache.entry[m].open)
    /\ \E m \in Mimes : cache.entry[m] # NoEntry

(* As long as the selection stays, a transfer ends with the last byte: the
   reader never takes a part for the whole (selection_writer_flush). *)
TransferIsWhole ==
  \A r \in Readers :
    paste[r] # NoPaste /\ ~paste[r].writing /\ sel.id = paste[r].id => paste[r].off = paste[r].size

(* Nobody gets a part for the whole: neither who asks what is offered after the
   exit of its owner, nor who reads it. *)
OnlyWholeData == OfferIsWhole /\ TransferIsWhole

(* A takeover never replaces a selection: the screenshot taken while the idle
   callback was pending stays on the clipboard. *)
NeverReplaces ==
  [][sel'.by = "persist" /\ sel.by # "persist" => sel = NoSelection]_vars

(* Content that was read completely is offered again once the selection is
   empty, unless somebody sets the selection first. *)
KeptWhenEmptied ==
  \A m \in Mimes :
    (seat = "up" /\ sel = NoSelection /\ cache # NoCache /\ Usable(cache.entry[m]))
      ~> (seat # "up" \/ sel # NoSelection)

(* A source whose client has closed its pipe is read to the end, unless it is
   replaced by a new one. *)
ReadToTheEnd ==
  \A m \in Mimes :
    (cache # NoCache /\ cache.entry[m].st = "reading" /\ ~cache.entry[m].open)
      ~> (cache = NoCache \/ cache.entry[m].st # "reading" \/ cache.entry[m].open)

(* What a client has written before it exits is not lost: it is read, and what
   was read is offered. *)
ReadAndKept == ReadToTheEnd /\ KeptWhenEmptied

(* What is taken over is the content of the holder whose exit emptied the
   selection, that is the one put there last. *)
TakesOverLastHolder == sel.by = "persist" => sel.id = copies
=============================================================================
