------------------------------ MODULE OpenFiles ------------------------------
(* Opening and closing the video device, isp-v4l2.c.  Every open file gets one *)
(* of a fixed number of stream ids, with a stream and a file handle of its     *)
(* own; callbacks of the firmware find the stream of a type through an index,  *)
(* events find the file handle of an id.                                       *)
(*                                                                             *)
(* open and close of different files run at the same time: the device mutex    *)
(* is taken for ioctls only.  The allocations succeed, and so do the waits for *)
(* file_lock and notify_lock, whose failure the code only logs.                *)
EXTENDS Integers, FiniteSets

CONSTANTS File,        \* struct file: every file that may be open or opening
          MaxType,     \* V4L2_STREAM_TYPE_MAX, 4 in the build
          Meta,        \* V4L2_STREAM_TYPE_META, 1 in the build
          Null

StreamId == 0..MaxType - 1

ASSUME OpenAssumption ==
  /\ MaxType \in Nat \ {0} /\ Meta \in StreamId
  /\ Null \notin File /\ IsFiniteSet(File)

VARIABLES
  at,                  \* where each file is in fop_open or fop_close
  opened,              \* counter of open files
  mask,                \* stream_mask: the ids in use
  id, type,            \* of each file: stream_id, and its stream's stream_type
  stream,              \* pstreams: the file whose stream each entry points to
  index,               \* stream_id_index
  handle               \* fh_ptr: the file whose handle each entry points to

tables == <<stream, index, handle>>
vars == <<at, opened, mask, id, type, tables>>

Goto(f, from, to) == at[f] = from /\ at' = [at EXCEPT ![f] = to]
-----------------------------------------------------------------------------
(* isp_v4l2_fop_open.                                                          *)

Count(f) ==
  /\ Goto(f, "closed", "counted")
  /\ opened' = opened + 1
  /\ UNCHANGED <<mask, id, type, tables>>

\* isp_v4l2_fh_open, first part
Admit(f) ==
  /\ Goto(f, "counted", "admitted")
  /\ opened <= MaxType
  /\ UNCHANGED <<opened, mask, id, type, tables>>

\* "too many open streams"
Refuse(f) ==
  /\ Goto(f, "counted", "released")
  /\ opened > MaxType
  /\ UNCHANGED <<opened, mask, id, type, tables>>

\* isp_v4l2_fh_open, under file_lock: the first free id, or 0, which the
\* zeroed handle holds, when there is none.
Free == StreamId \ mask

First == IF Free = {} THEN 0 ELSE CHOOSE i \in Free : \A j \in Free : i <= j

\* Mutant of PickId: the id is not marked as used.
PickIdUnmarked(f) ==
  /\ Goto(f, "admitted", "picked")
  /\ id' = [id EXCEPT ![f] = First]
  /\ UNCHANGED <<opened, mask, type, tables>>

PickId(f) ==
  /\ Goto(f, "admitted", "picked")
  /\ id' = [id EXCEPT ![f] = First]
  /\ mask' = mask \cup {First}
  /\ UNCHANGED <<opened, type, tables>>

\* isp_v4l2_stream_init
InitStream(f) ==
  /\ Goto(f, "picked", "created")
  /\ stream' = [stream EXCEPT ![id[f]] = f]
  /\ type' = [type EXCEPT ![f] = MaxType]
  /\ UNCHANGED <<opened, mask, id, index, handle>>

\* An id other than META's is the type's index already.
SetIndex(f) ==
  /\ Goto(f, "created", "indexed")
  /\ index' = IF id[f] = Meta THEN index ELSE [index EXCEPT ![id[f]] = id[f]]
  /\ UNCHANGED <<opened, mask, id, type, stream, handle>>

Publish(f) ==
  /\ Goto(f, "indexed", "open")
  /\ handle' = [handle EXCEPT ![id[f]] = f]
  /\ UNCHANGED <<opened, mask, id, type, stream, index>>

\* isp_v4l2_s_fmt_vid_cap: META's own stream takes only its format, any other
\* takes it too.
SetFormat(f, t) ==
  /\ at[f] = "open" /\ t \in {id[f], Meta}
  /\ type' = [type EXCEPT ![f] = t]
  /\ index' = [index EXCEPT ![t] = id[f]]
  /\ UNCHANGED <<at, opened, mask, id, stream, handle>>
-----------------------------------------------------------------------------
(* isp_v4l2_fop_close.                                                         *)

\* Mutant of Unpublish: the handle is looked up under the stream's type.
UnpublishType(f) ==
  /\ Goto(f, "open", "unpublished")
  /\ handle' = [handle EXCEPT ![IF type[f] = MaxType THEN id[f] ELSE type[f]] = Null]
  /\ UNCHANGED <<opened, mask, id, type, stream, index>>

Unpublish(f) ==
  /\ Goto(f, "open", "unpublished")
  /\ handle' = [handle EXCEPT ![id[f]] = Null]
  /\ UNCHANGED <<opened, mask, id, type, stream, index>>

\* Mutant of Unindex: the entry of the id is cleared in place of the type's.
UnindexId(f) ==
  /\ Goto(f, "unpublished", "unindexed")
  /\ index' = IF type[f] = MaxType THEN index ELSE [index EXCEPT ![id[f]] = -1]
  /\ UNCHANGED <<opened, mask, id, type, stream, handle>>

Unindex(f) ==
  /\ Goto(f, "unpublished", "unindexed")
  /\ index' = IF type[f] = MaxType THEN index ELSE [index EXCEPT ![type[f]] = -1]
  /\ UNCHANGED <<opened, mask, id, type, stream, handle>>

\* isp_v4l2_stream_deinit: the stream is freed.
Deinit(f) ==
  /\ Goto(f, "unindexed", "freed")
  /\ UNCHANGED <<opened, mask, id, type, tables>>

Forget(f) ==
  /\ Goto(f, "freed", "forgotten")
  /\ stream' = [stream EXCEPT ![id[f]] = Null]
  /\ UNCHANGED <<opened, mask, id, type, index, handle>>

\* Under file_lock, after the queue has been released
ReturnId(f) ==
  /\ Goto(f, "forgotten", "released")
  /\ mask' = mask \ {id[f]}
  /\ UNCHANGED <<opened, id, type, tables>>

Uncount(f) ==
  /\ Goto(f, "released", "closed")
  /\ opened' = opened - 1
  /\ UNCHANGED <<mask, id, type, tables>>

Init ==
  /\ at = [f \in File |-> "closed"] /\ opened = 0 /\ mask = {}
  /\ id = [f \in File |-> 0] /\ type = [f \in File |-> MaxType]
  /\ stream = [i \in StreamId |-> Null] /\ handle = [i \in StreamId |-> Null]
  /\ index = [t \in StreamId |-> -1]

Open(f) ==
  \/ Count(f) \/ Admit(f) \/ Refuse(f) \/ PickId(f) \/ InitStream(f) \/ SetIndex(f) \/ Publish(f)

Close(f) ==
  \/ Unpublish(f) \/ Unindex(f) \/ Deinit(f) \/ Forget(f) \/ ReturnId(f) \/ Uncount(f)

Next == \E f \in File : Open(f) \/ Close(f) \/ \E t \in StreamId : SetFormat(f, t)

Spec == Init /\ [][Next]_vars
-----------------------------------------------------------------------------
\* The files that have an id, from fh_open to the clearing of the mask.
Holding == {"picked", "created", "indexed", "open", "unpublished", "unindexed", "freed", "forgotten"}
Counted == Holding \cup {"counted", "admitted", "released"}

\* Those whose stream is in the table.
Streaming == {"created", "indexed", "open", "unpublished", "unindexed", "freed"}

Holder == {f \in File : at[f] \in Holding}

TypeOK ==
  /\ at \in [File -> Counted \cup {"closed"}]
  /\ opened \in Nat /\ mask \subseteq StreamId
  /\ id \in [File -> StreamId] /\ type \in [File -> 0..MaxType]
  /\ stream \in [StreamId -> File \cup {Null}] /\ handle \in [StreamId -> File \cup {Null}]
  /\ index \in [StreamId -> StreamId \cup {-1}]

\* No two files share a stream id, however many open and close at once: the
\* search for a free id never comes up empty behind the check of the counter.
IdsDistinct == \A f, g \in Holder : id[f] = id[g] => f = g

\* An id in use is marked and one that is not is free: closing gives every id
\* back.
MaskExact == mask = {id[f] : f \in Holder}

\* Ids and mask agree: every open has an id of its own.
IdsOwned == IdsDistinct /\ MaskExact

\* Events about a stream reach the file that has it, exactly while it is open.
EventsReachOpen ==
  \A i \in StreamId, f \in File : handle[i] = f <=> at[f] = "open" /\ id[f] = i

\* The ioctls of a file act on the stream made for it, which no other open or
\* close replaces or removes.
OwnStream ==
  \A i \in StreamId, f \in File : stream[i] = f <=> at[f] \in Streaming /\ id[f] = i

\* Both tables indexed by stream id name the file that has it.
TablesMatch == EventsReachOpen /\ OwnStream

\* What a callback finds under a type negotiated with S_FMT has not been freed.
FoundIsLive ==
  \A t \in StreamId : index[t] # -1 /\ stream[index[t]] # Null =>
    LET f == stream[index[t]] IN type[f] = t => at[f] # "freed"
=============================================================================
