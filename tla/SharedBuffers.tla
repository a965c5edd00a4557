---------------------------- MODULE SharedBuffers ----------------------------
(* The statistics and the calibration that the firmware shares with a 3A      *)
(* daemon in user space, sbuf_func.c.  Each type of statistics has a ring of  *)
(* N items in a page both sides map.  The firmware thread fills items and     *)
(* publishes the index of the one to use, the daemon reads the indices        *)
(* through a character device, works on the items in place and writes the     *)
(* indices back.  A control thread puts a new calibration into the page when  *)
(* the WDR mode changes.                                                      *)
(*                                                                            *)
(* A spin lock makes every operation on a ring atomic, but for one case.  The *)
(* reset of a close initialises the lock before it takes it.  Whoever holds   *)
(* it then lets go of the reset's lock at his end, and what the firmware      *)
(* thread does to a ring runs beside the rest of the reset.  When both empty, *)
(* or take out, the same item, item_status_count[USING] is changed twice or   *)
(* loses a change; the guards of the ring look at this count.                 *)
(*                                                                            *)
(* The daemon is external: one process, one thread, which may end between any *)
(* two of its calls and be started again.                                     *)
EXTENDS Integers, Sequences, FiniteSets

CONSTANTS Type,        \* AE, AWB, AF, GAMMA and IRIDIX in the build
          Lead, Follow,\* AE and IRIDIX, whose items go to the daemon in pairs
          N,           \* SBUF_STATS_ARRAY_SIZE, 4 in the build
          Mode,        \* the WDR modes, with a calibration of their own
          Mixed,       \* a calibration whose copy is not finished
          MaxResets    \* bound: how often the daemon closes the device

Item == 0..N - 1
None == N              \* no item, where an index is expected

ASSUME SharedAssumption ==
  /\ N \in Nat /\ N >= 3
  /\ IsFiniteSet(Type) /\ Lead \in Type /\ Follow \in Type /\ Lead # Follow
  /\ Mixed \notin Mode /\ Mode # {} /\ MaxResets \in Nat

VARIABLES
  st, rd, wr,          \* of each type: buf_status of the items, read_idx, write_idx
  using,               \* of each type: item_status_count[USING]
  torn,                \* the types whose count a reset has spoilt
  fw, local,           \* the firmware thread: where it is, its items
  set,                 \* idx_set: the index published of each type, or None
  open,                \* dev_opened
  dm, mine,            \* the daemon and its calls: where they are, their items
  seen,                \* how many items of each type the reset has looked at
  cal, wdr, cur,       \* the calibration update; the WDR mode; cur_wdr_mode
  paused,              \* is_paused
  lut, fetched,        \* in the shared page: the calibration, is_fetched
  copy,                \* the calibration the daemon has read
  resets               \* closes so far

rings == <<st, rd, wr, using, torn>>
thread == <<fw, local>>
daemon == <<dm, mine, seen, copy>>
update == <<cal, wdr, cur, paused, lut>>
vars == <<rings, thread, set, open, daemon, update, fetched, resets>>

Status == {"empty", "prepare", "done", "using"}
Nothing == [t \in Type |-> None]
Unseen == [t \in Type |-> 0]
-----------------------------------------------------------------------------
(* The rings.  An item goes empty, prepare, done, using, empty.               *)

With(t, s) == {i \in Item : st[t][i] = s}

\* How far j is after i, going around.
Dist(i, j) == IF j > i THEN j - i ELSE j - i + N

\* The first item of S after i; None when there is none.
After(i, S) ==
  IF S = {} THEN None ELSE CHOOSE j \in S : \A k \in S : Dist(i, j) <= Dist(i, k)

\* The slot to write after w, passing over the one in use.  With one item in
\* use at most and three items there always is one.
NextWrite(t, w) == After(w, {i \in Item \ {w} : st[t][i] # "using"})

\* Mutant of GetEmpty: the read index stays on the item that is given up.
GetEmptyKeepsRead(t) ==
  LET w == wr[t]
      n == NextWrite(t, w)
  IN  /\ With(t, "prepare") = {}
      /\ st' = [st EXCEPT ![t] = [@ EXCEPT ![w] = "prepare", ![n] = "empty"]]
      /\ wr' = [wr EXCEPT ![t] = n]
      /\ UNCHANGED <<rd, using, torn>>

\* The item at the write index is prepared; the next one is emptied for the
\* next time, which may give up the oldest result.
GetEmpty(t) ==
  LET w == wr[t]
      n == NextWrite(t, w)
  IN  /\ With(t, "prepare") = {}
      /\ st' = [st EXCEPT ![t] = [@ EXCEPT ![w] = "prepare", ![n] = "empty"]]
      /\ wr' = [wr EXCEPT ![t] = n]
      /\ rd' = [rd EXCEPT ![t] = IF @ # n THEN @ ELSE After(n, With(t, "done") \ {n})]
      /\ UNCHANGED <<using, torn>>

\* Mutant of SetDone: the newest result is always the next one to read.
SetDoneReadsNewest(t, i) ==
  IF st[t][i] = "prepare"
    THEN /\ st' = [st EXCEPT ![t] = [@ EXCEPT ![i] = "done"]]
         /\ rd' = [rd EXCEPT ![t] = i]
         /\ UNCHANGED <<wr, using, torn>>
    ELSE UNCHANGED rings

SetDone(t, i) ==
  IF st[t][i] = "prepare"
    THEN /\ st' = [st EXCEPT ![t] = [@ EXCEPT ![i] = "done"]]
         /\ rd' = [rd EXCEPT ![t] = IF @ = None THEN i ELSE @]
         /\ UNCHANGED <<wr, using, torn>>
    ELSE UNCHANGED rings

CanUse(t) ==
  /\ using[t] = 0 /\ With(t, "done") # {}
  /\ rd[t] # None /\ st[t][rd[t]] = "done"

\* The oldest result becomes s, and read_idx goes on to the next.
TakeOut(t, s) ==
  /\ CanUse(t)
  /\ st' = [st EXCEPT ![t] = [@ EXCEPT ![rd[t]] = s]]
  /\ rd' = [rd EXCEPT ![t] = After(@, With(t, "done") \ {@})]
  /\ wr' = wr

\* A reset that runs unlocked has yet to look at item i.
Due(t, i) == dm = "resetting" /\ seen[t] <= i

\* The reset finds the item in use before it is counted, and empties it: its
\* decrement and the increment of the count cross, and one of them is lost.
GetDoneCaught(t) ==
  /\ Due(t, rd[t]) /\ TakeOut(t, "empty")
  /\ \E n \in {-1, 1} : using' = [using EXCEPT ![t] = n]
  /\ torn' = torn \cup {t}

GetDone(t) ==
  \/ TakeOut(t, "using") /\ using' = [using EXCEPT ![t] = @ + 1] /\ torn' = torn
  \/ GetDoneCaught(t)

\* The items of the sets F[t] that are in use become empty and are counted
\* off; of a type there is one at most.
Emptied(F) ==
  [t \in Type |-> [i \in Item |->
     IF i \in F[t] /\ st[t][i] = "using" THEN "empty" ELSE st[t][i]]]
CountedOff(F) ==
  [t \in Type |-> IF F[t] \cap With(t, "using") = {} THEN using[t] ELSE using[t] - 1]

\* Of the items given back, one index of each type or None, those that are
\* accepted; what is not in use is refused and stays as it is.
Accepted(items) ==
  [t \in Type |-> IF using[t] = 1 THEN {items[t]} \cap With(t, "using") ELSE {}]

SetEmpty(items) ==
  /\ st' = Emptied(Accepted(items)) /\ using' = CountedOff(Accepted(items))
  /\ UNCHANGED <<rd, wr, torn>>

\* The reset finds the items of S in use as well, before they are emptied here:
\* they are counted off twice.
SetEmptyCaught(items) ==
  /\ \E S \in SUBSET {t \in Type : \E i \in Accepted(items)[t] : Due(t, i)} :
       /\ S # {} /\ torn' = torn \cup S
       /\ using' = [t \in Type |-> IF t \in S THEN -1 ELSE CountedOff(Accepted(items))[t]]
  /\ st' = Emptied(Accepted(items))
  /\ UNCHANGED <<rd, wr>>
-----------------------------------------------------------------------------
(* The firmware thread: the handler of new_frame fills items, the handlers of *)
(* ae_stats_ready and its like publish them.                                  *)

Rest == UNCHANGED <<set, open, daemon, update, fetched, resets>>

Fill(t) ==
  /\ fw = "idle" /\ GetEmpty(t)
  /\ fw' = "filling"
  /\ local' = [local EXCEPT ![t] = wr[t]]
  /\ Rest

Filled(t) ==
  /\ fw = "filling" /\ local[t] # None
  /\ SetDone(t, local[t])
  /\ fw' = "idle" /\ local' = Nothing
  /\ Rest

\* The oldest result of t, at an event that a result of t raised.  When an
\* item of t is still in use the event comes to nothing.
Drain(t) ==
  /\ t # Follow
  /\ fw = "idle" /\ GetDone(t)
  /\ fw' = IF t = Lead THEN "pairing" ELSE "got"
  /\ local' = [local EXCEPT ![t] = rd[t]]
  /\ Rest

Pair ==
  /\ fw = "pairing" /\ GetDone(Follow)
  /\ fw' = "got"
  /\ local' = [local EXCEPT ![Follow] = rd[Follow]]
  /\ Rest

Unpaired ==
  /\ fw = "pairing" /\ ~CanUse(Follow)
  /\ SetEmpty(local) \/ SetEmptyCaught(local)
  /\ fw' = "idle" /\ local' = Nothing
  /\ Rest

\* Nobody to publish for: the items go back.  A kernel thread takes no signal,
\* so it always gets idx_set_lock.
GiveBack ==
  /\ fw = "got" /\ (~open \/ paused)
  /\ SetEmpty(local) \/ SetEmptyCaught(local)
  /\ fw' = "idle" /\ local' = Nothing
  /\ Rest

Checked ==
  /\ fw = "got" /\ open /\ ~paused
  /\ fw' = "checked"
  /\ UNCHANGED <<rings, local>> /\ Rest

\* Under idx_set_lock.
Publish ==
  /\ fw = "checked"
  /\ set' = [t \in Type |-> IF local[t] = None THEN set[t] ELSE local[t]]
  /\ fw' = "idle" /\ local' = Nothing
  /\ UNCHANGED <<rings, open, daemon, update, fetched, resets>>

Firmware ==
  \/ \E t \in Type : Fill(t) \/ Filled(t) \/ Drain(t)
  \/ Pair \/ Unpaired \/ GiveBack \/ Checked \/ Publish
-----------------------------------------------------------------------------
(* The daemon, and the file operations it calls.                              *)

Open ==
  /\ dm = "closed" /\ ~open /\ resets < MaxResets
  /\ open' = TRUE /\ dm' = "idle"
  /\ UNCHANGED <<rings, thread, set, mine, seen, copy, update, fetched, resets>>

\* is_fetched is 0: the daemon reads the calibration, then sets it.
FetchBegin ==
  /\ dm = "idle" /\ ~fetched
  /\ copy' = lut /\ dm' = "fetching"
  /\ UNCHANGED <<rings, thread, set, open, mine, seen, update, fetched, resets>>

FetchEnd ==
  /\ dm = "fetching"
  /\ copy' = IF copy = lut THEN copy ELSE Mixed
  /\ fetched' = TRUE /\ dm' = "idle"
  /\ UNCHANGED <<rings, thread, set, open, mine, seen, update, resets>>

Ready == ~paused /\ fetched

\* The first part of sbuf_fops_read; -ENODATA when not ready.
Read ==
  /\ dm = "idle" /\ Ready
  /\ dm' = "reading"
  /\ UNCHANGED <<rings, thread, set, open, mine, seen, copy, update, fetched, resets>>

\* Mutant of TakeSet: the indices stay published.
TakeSetKeeps ==
  /\ dm = "reading"
  /\ mine' = set /\ set' = set
  /\ dm' = "read"
  /\ UNCHANGED <<rings, thread, open, seen, copy, update, fetched, resets>>

\* What is published, after a wait that may run out with nothing there.
TakeSet ==
  /\ dm = "reading"
  /\ mine' = set /\ set' = Nothing
  /\ dm' = "read"
  /\ UNCHANGED <<rings, thread, open, seen, copy, update, fetched, resets>>

\* The second check, after the wait.
Recycle ==
  /\ dm = "read" /\ ~Ready
  /\ SetEmpty(mine)
  /\ dm' = "idle" /\ mine' = Nothing
  /\ UNCHANGED <<thread, set, open, seen, copy, update, fetched, resets>>

ReadOk ==
  /\ dm = "read" /\ Ready
  /\ dm' = IF mine = Nothing THEN "idle" ELSE "using"
  /\ UNCHANGED <<rings, thread, set, open, mine, seen, copy, update, fetched, resets>>

\* sbuf_mgr_apply_new_param takes over the results and returns the items one
\* by one.
Apply(t) ==
  /\ dm \in {"using", "writing"} /\ mine[t] # None
  /\ SetEmpty([Nothing EXCEPT ![t] = mine[t]])
  /\ mine' = [mine EXCEPT ![t] = None]
  /\ dm' = IF mine' = Nothing THEN "idle" ELSE "writing"
  /\ UNCHANGED <<thread, set, open, seen, copy, update, fetched, resets>>

\* The daemon closes the device, or ends, and what it has read is gone: first
\* dev_opened, ...
Release ==
  /\ dm \in {"idle", "fetching", "using"}
  /\ open' = FALSE
  /\ dm' = "closing" /\ mine' = Nothing /\ copy' = Mixed
  /\ UNCHANGED <<rings, thread, set, seen, update, fetched, resets>>

\* ... then sbuf_mgr_reset: what is in use is empty again.
Closed ==
  /\ dm' = "closed" /\ resets' = resets + 1 /\ seen' = Unseen
  /\ UNCHANGED <<rd, wr, torn, thread, set, open, mine, copy, update>>

\* Mutant of Reset: the items are emptied and stay counted.
ResetKeepsCount ==
  /\ dm = "closing"
  /\ fetched' = FALSE
  /\ st' = Emptied([t \in Type |-> Item]) /\ using' = using
  /\ Closed

\* Nobody was at the rings when the lock was initialised.
Reset ==
  /\ dm = "closing"
  /\ fetched' = FALSE
  /\ st' = Emptied([t \in Type |-> Item]) /\ using' = CountedOff([t \in Type |-> Item])
  /\ Closed

\* Somebody was: the firmware thread, in an operation on a ring, or the control
\* thread, counting the items in use.  The reset goes on without the lock.
ResetUnlocked ==
  /\ dm = "closing"
  /\ fw # "checked" \/ cal = "waiting"
  /\ fetched' = FALSE /\ dm' = "resetting"
  /\ UNCHANGED <<rings, thread, set, open, mine, seen, copy, update, resets>>

\* The next item, of every type in turn, Follow's last.  An operation of the
\* firmware thread on the same item comes before this or after, or is caught.
ResetItem(t) ==
  /\ dm = "resetting" /\ seen[t] < N
  /\ \A u \in Type \ {t} : seen[t] < seen[u] \/ (seen[t] = seen[u] /\ t # Follow)
  /\ LET F == [u \in Type |-> IF u = t THEN {seen[t]} ELSE {}]
     IN  st' = Emptied(F) /\ using' = CountedOff(F)
  /\ seen' = [seen EXCEPT ![t] = @ + 1]
  /\ UNCHANGED <<rd, wr, torn, thread, set, open, dm, mine, copy, update, fetched, resets>>

ResetEnd ==
  /\ dm = "resetting" /\ \A t \in Type : seen[t] = N
  /\ Closed
  /\ UNCHANGED <<st, using, fetched>>

Daemon ==
  \/ Open \/ FetchBegin \/ FetchEnd \/ Read \/ TakeSet \/ Recycle \/ ReadOk
  \/ (\E t \in Type : Apply(t) \/ ResetItem(t))
  \/ Release \/ Reset \/ ResetUnlocked \/ ResetEnd
-----------------------------------------------------------------------------
(* A new calibration, sbuf_calibration_init, on the thread of a control       *)
(* command.                                                                   *)

Others == UNCHANGED <<rings, thread, set, open, daemon, resets>>

CalBegin(m) ==
  /\ cal = "idle" /\ m # cur
  /\ wdr' = m /\ paused' = TRUE /\ cal' = "waiting"
  /\ UNCHANGED <<cur, lut, fetched>> /\ Others

\* Mutant of CalReady: items in use are not reckoned with.
CalReadyIgnoresItems == ~(open /\ ~fetched)

\* sbuf_calibration_is_ready_to_update: the counts add up to 0.  The items of
\* Follow are counted under a macro that the build does not define.
CalReady ==
  /\ LET CountedAs(n) == {t \in Type \ {Follow} : using[t] = n}
     IN  Cardinality(CountedAs(1)) = Cardinality(CountedAs(-1))
  /\ ~(open /\ ~fetched)

CalCopyBegin ==
  /\ cal = "waiting" /\ CalReady
  /\ lut' = Mixed /\ cal' = "copying"
  /\ UNCHANGED <<wdr, cur, paused, fetched>> /\ Others

CalCopyEnd ==
  /\ cal = "copying"
  /\ lut' = wdr /\ fetched' = FALSE /\ cal' = "copied"
  /\ UNCHANGED <<wdr, cur, paused>> /\ Others

CalEnd ==
  /\ cal = "copied"
  /\ paused' = FALSE /\ cur' = wdr /\ cal' = "idle"
  /\ UNCHANGED <<wdr, lut, fetched>> /\ Others

\* Mutant of CalTimeout: the statistics stay held back.
CalTimeoutStaysPaused ==
  /\ cal = "waiting" /\ ~CalReady
  /\ cal' = "idle"
  /\ UNCHANGED <<wdr, cur, lut, paused, fetched>> /\ Others

\* A thousand polls found the update not ready.
CalTimeout ==
  /\ cal = "waiting" /\ ~CalReady
  /\ paused' = FALSE /\ cal' = "idle"
  /\ UNCHANGED <<wdr, cur, lut, fetched>> /\ Others

Calibration ==
  (\E m \in Mode : CalBegin(m)) \/ CalCopyBegin \/ CalCopyEnd \/ CalEnd \/ CalTimeout
-----------------------------------------------------------------------------
Init ==
  /\ st = [t \in Type |-> [i \in Item |-> "empty"]]
  /\ rd = Nothing /\ wr = Unseen /\ using = Unseen /\ torn = {}
  /\ fw = "idle" /\ local = Nothing
  /\ set = Nothing
  /\ open = FALSE /\ dm = "closed" /\ mine = Nothing /\ seen = Unseen
  /\ cal = "idle" /\ paused = FALSE
  /\ wdr \in Mode /\ cur = wdr /\ lut = wdr /\ copy = Mixed
  /\ fetched = FALSE /\ resets = 0

Next == Firmware \/ Daemon \/ Calibration

Spec == Init /\ [][Next]_vars

\* The control thread runs.  A wait that ends either way is fair too: it is
\* bounded by its count of polls.
FairSpec == Spec /\ WF_vars(CalCopyBegin \/ CalTimeout) /\ WF_vars(CalCopyEnd \/ CalEnd)
-----------------------------------------------------------------------------
TypeOK ==
  /\ st \in [Type -> [Item -> Status]]
  /\ rd \in [Type -> 0..N] /\ wr \in [Type -> Item]
  /\ using \in [Type -> -1..1] /\ torn \in SUBSET Type /\ seen \in [Type -> 0..N]
  /\ fw \in {"idle", "filling", "pairing", "got", "checked"}
  /\ local \in [Type -> 0..N] /\ set \in [Type -> 0..N] /\ mine \in [Type -> 0..N]
  /\ open \in BOOLEAN /\ paused \in BOOLEAN /\ fetched \in BOOLEAN
  /\ dm \in {"closed", "idle", "fetching", "reading", "read", "using", "writing", "closing",
            "resetting"}
  /\ cal \in {"idle", "waiting", "copying", "copied"}
  /\ wdr \in Mode /\ cur \in Mode /\ lut \in Mode \cup {Mixed} /\ copy \in Mode \cup {Mixed}
  /\ resets \in 0..MaxResets

\* The producer never finds its slot taken: the item at write_idx is always an
\* empty one that nobody uses, one item at most is prepared and one at most in
\* use (sbuf_get_item_from_arr picks the slot for the next time under the lock
\* of this time, and every other step must leave it so).
ProducerNeverWaits ==
  \A t \in Type :
    /\ st[t][wr[t]] = "empty"
    /\ \A i, j \in Item : st[t][i] = st[t][j] /\ st[t][i] \in {"prepare", "using"} => i = j

\* read_idx names a result whenever there is one, so the entry behind the array
\* is never looked at while there are results, and no other result is older.
OldestFirst ==
  \A t \in Type :
    /\ rd[t] = None <=> With(t, "done") = {}
    /\ rd[t] # None =>
         /\ st[t][rd[t]] = "done"
         /\ \A i \in With(t, "done") : Dist(wr[t], rd[t]) <= Dist(wr[t], i)

\* The two positions of a ring always name what their owners rely on.
PositionsSound == ProducerNeverWaits /\ OldestFirst

Names(t) == {local[t], set[t], mine[t]}

Closing == dm \in {"closing", "resetting"}

\* No type is stopped for good, unless its count is torn.  An item is counted
\* exactly while it is in use, one at a time may be, and the firmware thread,
\* the published set or the daemon names it and will give it back, or the reset
\* after a close has yet to come to it.
NoItemLost ==
  \A t \in Type \ torn :
    /\ using[t] = IF With(t, "using") = {} THEN 0 ELSE 1
    /\ \A i \in With(t, "using") : i \in Names(t) \/ dm = "closing" \/ Due(t, i)

\* A torn count is neither 0 nor 1 with an item in use, so a torn type gives no
\* item out any more and takes none back.
TornStops == \A t \in torn : With(t, "using") = {} /\ using[t] # 0

\* Until the device has been closed once, an item is in use as long as the
\* published set or the daemon names it, and only one of them does: the
\* firmware does not write to what the daemon reads.
SessionOwnsItems ==
  resets = 0 /\ ~Closing =>
    \A t \in Type :
      /\ \A i \in {set[t], mine[t]} \ {None} : st[t][i] = "using"
      /\ set[t] # None => mine[t] = None /\ (local[t] = set[t] => fw = "filling")

\* Items are held by one side at a time, and by some side.
ItemsOwned == NoItemLost /\ TornStops /\ SessionOwnsItems

\* The daemon works on no item while the calibration is exchanged (Follow's,
\* which the code does not count, apart).
QuietCalibration ==
  resets = 0 /\ cal = "copying" /\ dm \in {"using", "writing"} =>
    \A t \in Type \ {Follow} : mine[t] = None

\* A calibration update always lets the statistics go on, daemon or not.
Resumes == paused ~> ~paused

\* The items of D from the nearest after w on.
TheOne(S) == CHOOSE i \in S : TRUE
Ranked(D, w, n) == {i \in D : Cardinality({j \in D : Dist(w, j) < Dist(w, i)}) = n - 1}
InOrder(D, w) == [n \in 1..Cardinality(D) |-> TheOne(Ranked(D, w, n))]

\* A ring promises what StatsQueue says: the results in order, at most the
\* oldest given up.
Queue == INSTANCE StatsQueue WITH
           waiting <- [t \in Type |-> InOrder(With(t, "done"), wr[t])],
           inUse <- [t \in Type |-> With(t, "using")]

RefinesStatsQueue == Queue!Spec
=============================================================================
