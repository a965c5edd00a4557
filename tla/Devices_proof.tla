----------------------------- MODULE Devices_proof ----------------------------
(* Proofs about the two devices a process opens, the video device (OpenFiles)  *)
(* and the control device (Connection).                                        *)
(*                                                                             *)
(* The video device, for any number of files and of stream ids: the counter is *)
(* checked before an id is looked for, and that check is enough for the search *)
(* never to come up empty.  From there every open file has an id, a stream and *)
(* a file handle of its own.                                                   *)
(*                                                                             *)
(* The control device, for any requests and any lengths of header, arguments,  *)
(* buffer and fifos: the words in the thread's buffer and in the fifo behind   *)
(* it are one piece of what the client has written, from the first word of the *)
(* next request to the last word written.  So a header is read where a header  *)
(* stands, and the answers follow one another as the requests do.              *)
EXTENDS OpenFiles, Connection, FiniteSetTheorems, SequenceTheorems,
        WellFoundedInduction, TLAPS
-----------------------------------------------------------------------------
(* The video device.                                                           *)

\* Files that are counted, and those that have passed the check of the counter.
CountedFile == {f \in File : at[f] \in Counted}
Admitted == {f \in File : at[f] \in Holding \cup {"admitted"}}

\* The search for an id is short of one only if as many files have been
\* admitted as there are ids, besides the one that searches.
Counting ==
  /\ opened = Cardinality(CountedFile)
  /\ Cardinality(Admitted) <= MaxType

\* Between the clearing of its type's index and the freeing of its stream no
\* index leads to a file that has negotiated its type.
Unindexed ==
  \A f \in File : at[f] \in {"unindexed", "freed"} /\ type[f] # MaxType => index[type[f]] # id[f]

\* Ids stay distinct only because a free one is found, which is a matter of
\* counting; the tables are right only because ids are distinct.
IInv ==
  /\ TypeOK /\ Counting
  /\ IdsDistinct /\ MaskExact
  /\ EventsReachOpen /\ OwnStream /\ Unindexed

\* A set of natural numbers that is not empty has a least one.
LEMMA LeastNatural ==
  ASSUME NEW S \in SUBSET Nat, S # {}
  PROVE  \E i \in S : \A j \in S : i <= j
<1> DEFINE R == {p \in Nat \X Nat : p[1] < p[2]}
<1>1. IsWellFoundedOn(R, Nat)
  BY NatLessThanWellFounded DEF OpToRel
<1>2. PICK i \in S : \A j \in S : <<j, i>> \notin R
  <2> HIDE DEF R
  <2> QED BY <1>1, WFMin
<1>3. ASSUME NEW j \in S PROVE i <= j
  <2>1. i \in Nat /\ j \in Nat
    OBVIOUS
  <2>2. j < i => <<j, i>> \in R
    BY <2>1
  <2>3. ~(j < i)
    BY <1>2, <2>2
  <2> QED BY <2>1, <2>3
<1> QED BY <1>3

\* The search returns a free id when there is one.
LEMMA FirstIsFree ==
  ASSUME Free # {}
  PROVE  First \in Free
<1>1. Free \in SUBSET Nat
  BY OpenAssumption DEF Free, StreamId
<1>2. \E i \in Free : \A j \in Free : i <= j
  BY <1>1, LeastNatural
<1> QED BY <1>2 DEF First

\* Sets of files are finite.
LEMMA FilesFinite ==
  /\ IsFiniteSet(CountedFile) /\ IsFiniteSet(Admitted) /\ IsFiniteSet(Holder)
  /\ Cardinality(CountedFile) \in Nat /\ Cardinality(Admitted) \in Nat
  /\ Cardinality(Holder) \in Nat
<1>1. CountedFile \in SUBSET File /\ Admitted \in SUBSET File /\ Holder \in SUBSET File
  BY DEF CountedFile, Admitted, Holder
<1>2. IsFiniteSet(CountedFile) /\ IsFiniteSet(Admitted) /\ IsFiniteSet(Holder)
  BY <1>1, OpenAssumption, FS_Subset
<1> QED BY <1>2, FS_CardinalityType

\* A file that has been admitted finds a free id: the files that have one are
\* fewer than the ids.
LEMMA FreeId ==
  ASSUME IInv, NEW f \in File, at[f] = "admitted"
  PROVE  Free # {}
<1>1. SUFFICES ASSUME Free = {} PROVE FALSE
  OBVIOUS
<1> DEFINE owner == [i \in StreamId |-> CHOOSE h \in Holder : id[h] = i]
<1>2. \A i \in StreamId : owner[i] \in Holder /\ id[owner[i]] = i
  BY <1>1 DEF IInv, MaskExact, Free
<1>3. Cardinality(Holder) < MaxType
  <2>1. f \notin Holder /\ Holder \cup {f} \in SUBSET Admitted
    BY DEF Holder, Holding, Admitted
  <2>2. Cardinality(Holder \cup {f}) = Cardinality(Holder) + 1
    BY <2>1, FilesFinite, FS_AddElement
  <2>3. Cardinality(Holder \cup {f}) <= Cardinality(Admitted)
    BY <2>1, FilesFinite, FS_Subset
  <2> QED BY <2>2, <2>3, FilesFinite, OpenAssumption DEF IInv, Counting
<1>4. IsFiniteSet(StreamId) /\ Cardinality(StreamId) = MaxType
  <2>1. 0 \in Int /\ MaxType - 1 \in Int /\ ~(0 > MaxType - 1) /\ MaxType - 1 - 0 + 1 = MaxType
    BY OpenAssumption
  <2> QED BY <2>1, FS_Interval DEF StreamId
<1>5. PICK i, j \in StreamId : i # j /\ owner[i] = owner[j]
  <2>1. owner \in [StreamId -> Holder]
    BY <1>2
  <2> HIDE DEF owner
  <2> QED BY <1>3, <1>4, <2>1, FilesFinite, FS_PigeonHole
<1> QED BY <1>2, <1>5

-----------------------------------------------------------------------------
\* Nothing is open at first, so nothing is counted.
LEMMA CountingInit == Init => Counting
<1> SUFFICES ASSUME Init PROVE Counting
  OBVIOUS
<1>1. CountedFile = {} /\ Admitted = {}
  BY DEF Init, CountedFile, Admitted, Counted, Holding
<1> QED BY <1>1, FS_EmptySet, OpenAssumption DEF Init, Counting

\* A step counts or uncounts one file, admits one among those counted, or
\* leaves the counter alone and admits none.
LEMMA CountingStep ==
  ASSUME IInv, [Next]_vars
  PROVE  Counting'
<1>1. CASE \E f \in File : Count(f)
  <2>1. PICK f \in File : Count(f)
    BY <1>1
  <2>2. f \notin CountedFile /\ CountedFile' = CountedFile \cup {f} /\ Admitted' = Admitted
    BY <2>1 DEF Count, Goto, IInv, TypeOK, CountedFile, Admitted, Counted, Holding
  <2>3. Cardinality(CountedFile') = Cardinality(CountedFile) + 1
    BY <2>2, FilesFinite, FS_AddElement
  <2> QED BY <2>1, <2>2, <2>3 DEF Count, IInv, Counting
<1>2. CASE \E f \in File : Uncount(f)
  <2>1. PICK f \in File : Uncount(f)
    BY <1>2
  <2>2. f \in CountedFile /\ CountedFile' = CountedFile \ {f} /\ Admitted' = Admitted
    BY <2>1 DEF Uncount, Goto, IInv, TypeOK, CountedFile, Admitted, Counted, Holding
  <2>3. Cardinality(CountedFile') = Cardinality(CountedFile) - 1
    BY <2>2, FilesFinite, FS_RemoveElement
  <2> QED BY <2>1, <2>2, <2>3 DEF Uncount, IInv, Counting
<1>3. CASE \E f \in File : Admit(f)
  <2>1. PICK f \in File : Admit(f)
    BY <1>3
  <2>2. CountedFile' = CountedFile /\ Admitted' \in SUBSET CountedFile
    BY <2>1 DEF Admit, Goto, IInv, TypeOK, CountedFile, Admitted, Counted, Holding
  <2>3. Cardinality(Admitted') <= Cardinality(CountedFile) /\ Cardinality(Admitted') \in Nat
    BY <2>2, FilesFinite, FS_Subset, FS_CardinalityType
  <2> QED BY <2>1, <2>2, <2>3, FilesFinite, OpenAssumption DEF Admit, IInv, Counting
<1>4. ASSUME opened' = opened, CountedFile' = CountedFile, Admitted' \in SUBSET Admitted
      PROVE  Counting'
  <2>1. Cardinality(Admitted') <= Cardinality(Admitted) /\ Cardinality(Admitted') \in Nat
    BY <1>4, FilesFinite, FS_Subset, FS_CardinalityType
  <2> QED BY <1>4, <2>1, FilesFinite, OpenAssumption DEF IInv, Counting
<1>5. CASE UNCHANGED <<at, opened>>
  BY <1>4, <1>5 DEF CountedFile, Admitted
<1>6. ASSUME NEW f \in File, opened' = opened, at[f] \in Counted, at' = [at EXCEPT ![f] = at'[f]],
             at'[f] \in Counted, at'[f] \in Holding => at[f] \in Holding \cup {"admitted"}, at'[f] # "admitted"
      PROVE  Counting'
  <2>1. CountedFile' = CountedFile /\ Admitted' \in SUBSET Admitted
    BY <1>6 DEF IInv, TypeOK, CountedFile, Admitted
  <2> QED BY <1>4, <1>6, <2>1
<1>7. CASE \E f \in File : \/ Refuse(f) \/ PickId(f) \/ InitStream(f) \/ SetIndex(f) \/ Publish(f)
                          \/ Unpublish(f) \/ Unindex(f) \/ Deinit(f) \/ Forget(f) \/ ReturnId(f)
  <2>1. PICK f \in File : \/ Refuse(f) \/ PickId(f) \/ InitStream(f) \/ SetIndex(f) \/ Publish(f)
                          \/ Unpublish(f) \/ Unindex(f) \/ Deinit(f) \/ Forget(f) \/ ReturnId(f)
    BY <1>7
  <2>2. \E from, to \in Counted :
           /\ Goto(f, from, to) /\ opened' = opened
           /\ to # "admitted" /\ (to \in Holding => from \in Holding \cup {"admitted"})
    BY <2>1 DEF Refuse, PickId, InitStream, SetIndex, Publish, Unpublish, Unindex, Deinit, Forget, ReturnId, Counted, Holding
  <2> QED BY <1>6, <2>2 DEF Goto, IInv, TypeOK
<1>8. CASE \E f \in File, t \in StreamId : SetFormat(f, t)
  BY <1>5, <1>8 DEF SetFormat
<1>9. CASE UNCHANGED vars
  BY <1>5, <1>9 DEF vars
<1> QED BY <1>1, <1>2, <1>3, <1>7, <1>8, <1>9 DEF Next, Open, Close

-----------------------------------------------------------------------------
\* Every assignment keeps its table in range: ids come from the search.
LEMMA TypeInit == Init => TypeOK
  BY OpenAssumption DEF Init, TypeOK, Counted, Holding, StreamId

\* The only range that is not a matter of one assignment is that of the ids.
LEMMA TypeStep ==
  ASSUME IInv, [Next]_vars
  PROVE  TypeOK'
<1> USE DEF IInv, TypeOK, Goto, tables
<1>1. \A s \in {"counted", "admitted", "released", "closed", "picked", "created", "indexed", "open",
                "unpublished", "unindexed", "freed", "forgotten"} : s \in Counted \cup {"closed"}
  BY DEF Counted, Holding
<1>2. ASSUME NEW f \in File, Count(f) PROVE TypeOK'
  BY <1>1, <1>2 DEF Count
<1>3. ASSUME NEW f \in File, Admit(f) \/ Refuse(f) \/ Deinit(f) PROVE TypeOK'
  BY <1>1, <1>3 DEF Admit, Refuse, Deinit
<1>4. ASSUME NEW f \in File, PickId(f) PROVE TypeOK'
  <2>1. First \in StreamId
    BY <1>4, FreeId, FirstIsFree DEF PickId, Free
  <2> QED BY <1>1, <1>4, <2>1 DEF PickId
<1>5. ASSUME NEW f \in File, InitStream(f) \/ SetIndex(f) \/ Publish(f) PROVE TypeOK'
  BY <1>1, <1>5, OpenAssumption DEF InitStream, SetIndex, Publish
<1>6. ASSUME NEW f \in File, NEW t \in StreamId, SetFormat(f, t) PROVE TypeOK'
  BY <1>6, OpenAssumption DEF SetFormat, StreamId
<1>7. ASSUME NEW f \in File, Unpublish(f) \/ Unindex(f) PROVE TypeOK'
  BY <1>1, <1>7 DEF Unpublish, Unindex
<1>8. ASSUME NEW f \in File, Forget(f) \/ ReturnId(f) PROVE TypeOK'
  BY <1>1, <1>8 DEF Forget, ReturnId
<1>9. ASSUME NEW f \in File, Uncount(f) PROVE TypeOK'
  <2>1. opened' \in Nat
    <3>1. Counting'
      BY CountingStep
    <3>2. CountedFile' \in SUBSET File
      BY DEF CountedFile
    <3> QED BY <3>1, <3>2, OpenAssumption, FS_Subset, FS_CardinalityType DEF Counting
  <2> QED BY <1>1, <1>9, <2>1 DEF Uncount
<1>10. CASE UNCHANGED vars
  BY <1>10 DEF vars
<1> QED BY <1>2, <1>3, <1>4, <1>5, <1>6, <1>7, <1>8, <1>9, <1>10 DEF Next, Open, Close

\* A file takes an id nobody holds, and gives back its own only.
LEMMA IdsStep ==
  ASSUME IInv, [Next]_vars
  PROVE  IdsDistinct' /\ MaskExact'
<1> USE DEF IInv, IdsDistinct, MaskExact
<1>1. ASSUME UNCHANGED <<id, mask>>, Holder' = Holder PROVE IdsDistinct' /\ MaskExact'
  BY <1>1
<1>2. ASSUME NEW f \in File, PickId(f) PROVE IdsDistinct' /\ MaskExact'
  <2>1. First \in StreamId /\ First \notin mask
    BY <1>2, FreeId, FirstIsFree DEF PickId, Goto, Free
  <2>2. Holder' = Holder \cup {f} /\ f \notin Holder
    BY <1>2 DEF PickId, Goto, TypeOK, Holder, Holding
  <2>3. id'[f] = First /\ \A g \in Holder : id'[g] = id[g] /\ id[g] # First
    BY <1>2, <2>1, <2>2 DEF PickId, TypeOK, Holder
  <2> QED BY <1>2, <2>2, <2>3 DEF PickId
<1>3. ASSUME NEW f \in File, ReturnId(f) PROVE IdsDistinct' /\ MaskExact'
  <2>1. Holder' = Holder \ {f} /\ f \in Holder /\ id' = id /\ mask' = mask \ {id[f]}
    BY <1>3 DEF ReturnId, Goto, TypeOK, Holder, Holding
  <2> QED BY <2>1
<1>4. ASSUME NEW f \in File, \/ Count(f) \/ Admit(f) \/ Refuse(f) \/ InitStream(f) \/ SetIndex(f) \/ Publish(f)
                             \/ Unpublish(f) \/ Unindex(f) \/ Deinit(f) \/ Forget(f) \/ Uncount(f)
      PROVE  IdsDistinct' /\ MaskExact'
  <2>1. UNCHANGED <<id, mask>>
    BY <1>4 DEF Count, Admit, Refuse, InitStream, SetIndex, Publish, Unpublish, Unindex, Deinit, Forget, Uncount
  <2>2. \E from, to : Goto(f, from, to) /\ (from \in Holding <=> to \in Holding)
    BY <1>4 DEF Count, Admit, Refuse, InitStream, SetIndex, Publish, Unpublish, Unindex, Deinit, Forget, Uncount, Holding
  <2>3. Holder' = Holder
    BY <2>2 DEF Goto, TypeOK, Holder
  <2> QED BY <1>1, <2>1, <2>3
<1>5. ASSUME NEW f \in File, NEW t \in StreamId, SetFormat(f, t) PROVE IdsDistinct' /\ MaskExact'
  BY <1>1, <1>5 DEF SetFormat, Holder
<1>6. CASE UNCHANGED vars
  BY <1>1, <1>6 DEF vars, tables, Holder
<1> QED BY <1>2, <1>3, <1>4, <1>5, <1>6 DEF Next, Open, Close

-----------------------------------------------------------------------------
\* The entry of an id in fh_ptr is written by the one file that holds the id.
LEMMA HandleStep ==
  ASSUME IInv, [Next]_vars
  PROVE  EventsReachOpen'
<1> USE DEF IInv, TypeOK, Goto
<1>1. ASSUME NEW f \in File, Publish(f) PROVE EventsReachOpen'
  <2>1. \A g \in File : at[g] = "open" => g # f /\ id[g] # id[f]
    BY <1>1 DEF Publish, IdsDistinct, Holder, Holding
  <2> QED BY <1>1, <2>1, OpenAssumption DEF Publish, EventsReachOpen
<1>2. ASSUME NEW f \in File, Unpublish(f) PROVE EventsReachOpen'
  <2>1. \A g \in File : at[g] = "open" /\ g # f => id[g] # id[f]
    BY <1>2 DEF Unpublish, IdsDistinct, Holder, Holding
  <2> QED BY <1>2, <2>1, OpenAssumption DEF Unpublish, EventsReachOpen
<1>3. ASSUME NEW f \in File, PickId(f) PROVE EventsReachOpen'
  BY <1>3 DEF PickId, tables, EventsReachOpen
<1>4. ASSUME UNCHANGED <<id, handle>>, \A g \in File : at'[g] = "open" <=> at[g] = "open" PROVE EventsReachOpen'
  BY <1>4 DEF EventsReachOpen
<1>5. ASSUME NEW f \in File, \/ Count(f) \/ Admit(f) \/ Refuse(f) \/ InitStream(f) \/ SetIndex(f)
                             \/ Unindex(f) \/ Deinit(f) \/ Forget(f) \/ ReturnId(f) \/ Uncount(f)
      PROVE  EventsReachOpen'
  BY <1>4, <1>5 DEF tables, Count, Admit, Refuse, InitStream, SetIndex, Unindex, Deinit, Forget, ReturnId, Uncount
<1>6. CASE (\E f \in File, t \in StreamId : SetFormat(f, t)) \/ UNCHANGED vars
  BY <1>4, <1>6 DEF SetFormat, vars, tables
<1> QED BY <1>1, <1>2, <1>3, <1>5, <1>6 DEF Next, Open, Close

\* So is its entry in pstreams.
LEMMA StreamStep ==
  ASSUME IInv, [Next]_vars
  PROVE  OwnStream'
<1> USE DEF IInv, TypeOK, Goto
<1>1. ASSUME NEW f \in File, InitStream(f) PROVE OwnStream'
  <2>1. \A g \in File : at[g] \in Streaming => g # f /\ id[g] # id[f]
    BY <1>1 DEF InitStream, IdsDistinct, Holder, Holding, Streaming
  <2> QED BY <1>1, <2>1, OpenAssumption DEF InitStream, OwnStream, Streaming
<1>2. ASSUME NEW f \in File, Forget(f) PROVE OwnStream'
  <2>1. \A g \in File : at[g] \in Streaming /\ g # f => id[g] # id[f]
    BY <1>2 DEF Forget, IdsDistinct, Holder, Holding, Streaming
  <2> QED BY <1>2, <2>1, OpenAssumption DEF Forget, OwnStream, Streaming
<1>3. ASSUME NEW f \in File, PickId(f) PROVE OwnStream'
  BY <1>3 DEF PickId, tables, OwnStream, Streaming
<1>4. ASSUME UNCHANGED <<id, stream>>, \A g \in File : at'[g] \in Streaming <=> at[g] \in Streaming PROVE OwnStream'
  BY <1>4 DEF OwnStream
<1>5. ASSUME NEW f \in File, \/ Count(f) \/ Admit(f) \/ Refuse(f) \/ SetIndex(f) \/ Publish(f)
                             \/ Unpublish(f) \/ Unindex(f) \/ Deinit(f) \/ ReturnId(f) \/ Uncount(f)
      PROVE  OwnStream'
  BY <1>4, <1>5 DEF tables, Count, Admit, Refuse, SetIndex, Publish, Unpublish, Unindex, Deinit, ReturnId, Uncount, Streaming
<1>6. CASE (\E f \in File, t \in StreamId : SetFormat(f, t)) \/ UNCHANGED vars
  BY <1>4, <1>6 DEF SetFormat, vars, tables
<1> QED BY <1>1, <1>2, <1>3, <1>5, <1>6 DEF Next, Open, Close

\* An index is set to the id of a file that is opening or open, never to that
\* of one about to be freed.
LEMMA IndexStep ==
  ASSUME IInv, [Next]_vars
  PROVE  Unindexed'
<1> USE DEF IInv, TypeOK, Goto
<1>1. ASSUME NEW f \in File, SetIndex(f) PROVE Unindexed'
  <2>1. \A g \in File : at[g] \in {"unindexed", "freed"} => g # f /\ id[g] # id[f]
    BY <1>1 DEF SetIndex, IdsDistinct, Holder, Holding
  <2> QED BY <1>1, <2>1 DEF SetIndex, Unindexed
<1>2. ASSUME NEW f \in File, NEW t \in StreamId, SetFormat(f, t) PROVE Unindexed'
  <2>1. \A g \in File : at[g] \in {"unindexed", "freed"} => g # f /\ id[g] # id[f]
    BY <1>2 DEF SetFormat, IdsDistinct, Holder, Holding
  <2> QED BY <1>2, <2>1 DEF SetFormat, Unindexed
<1>3. ASSUME NEW f \in File, Unindex(f) PROVE Unindexed'
  <2>1. -1 \notin StreamId /\ 0..MaxType \ {MaxType} = StreamId
    BY OpenAssumption DEF StreamId
  <2> QED BY <1>3, <2>1 DEF Unindex, Unindexed
<1>4. ASSUME NEW f \in File, PickId(f) \/ InitStream(f) PROVE Unindexed'
  BY <1>4 DEF PickId, InitStream, tables, Unindexed
<1>5. ASSUME UNCHANGED <<id, type, index>>, \A g \in File : at'[g] \in {"unindexed", "freed"} => at[g] \in {"unindexed", "freed"}
      PROVE  Unindexed'
  BY <1>5 DEF Unindexed
<1>6. ASSUME NEW f \in File, \/ Count(f) \/ Admit(f) \/ Refuse(f) \/ Publish(f)
                             \/ Unpublish(f) \/ Deinit(f) \/ Forget(f) \/ ReturnId(f) \/ Uncount(f)
      PROVE  Unindexed'
  BY <1>5, <1>6 DEF tables, Count, Admit, Refuse, Publish, Unpublish, Deinit, Forget, ReturnId, Uncount
<1>7. CASE UNCHANGED vars
  BY <1>5, <1>7 DEF vars, tables
<1> QED BY <1>1, <1>2, <1>3, <1>4, <1>6, <1>7 DEF Next, Open, Close
-----------------------------------------------------------------------------
\* The inductive invariant holds of every behaviour of open and close.
THEOREM OpenInvariant == Spec => []IInv
<1>1. Init => IInv
  <2> SUFFICES ASSUME Init PROVE IInv
    OBVIOUS
  <2>1. IdsDistinct /\ MaskExact
    BY DEF Init, IdsDistinct, MaskExact, Holder, Holding
  <2>2. EventsReachOpen /\ OwnStream /\ Unindexed
    BY OpenAssumption DEF Init, EventsReachOpen, OwnStream, Streaming, Unindexed
  <2> QED BY <2>1, <2>2, TypeInit, CountingInit DEF IInv
<1>2. IInv /\ [Next]_vars => IInv'
  BY TypeStep, CountingStep, IdsStep, HandleStep, StreamStep, IndexStep DEF IInv
<1> QED BY <1>1, <1>2, PTL DEF Spec

\* The tables, masks and counters of isp_v4l2_dev_t keep their ranges.
THEOREM TypeCorrect == Spec => []TypeOK
<1>1. IInv => TypeOK
  BY DEF IInv
<1> QED BY <1>1, OpenInvariant, PTL

\* isp_v4l2_fh_open never gives one stream id to two files, and close never
\* gives back another file's.
THEOREM IdsAreOwned == Spec => []IdsOwned
<1>1. IInv => IdsOwned
  BY DEF IInv, IdsOwned
<1> QED BY <1>1, OpenInvariant, PTL

\* fh_ptr and pstreams name, for every id, the open file that has it.
THEOREM TablesAreRight == Spec => []TablesMatch
<1>1. IInv => TablesMatch
  BY DEF IInv, TablesMatch
<1> QED BY <1>1, OpenInvariant, PTL

\* A lookup by a negotiated type never ends at a freed stream.
THEOREM LookupIsLive == Spec => []FoundIsLive
<1>1. IInv => FoundIsLive
  <2> SUFFICES ASSUME IInv, NEW t \in StreamId, index[t] # -1, stream[index[t]] # Null,
                      type[stream[index[t]]] = t
               PROVE  at[stream[index[t]]] # "freed"
    BY DEF FoundIsLive
  <2> DEFINE f == stream[index[t]]
  <2>1. index[t] \in StreamId /\ f \in File
    BY DEF IInv, TypeOK
  <2>2. id[f] = index[t]
    BY <2>1 DEF IInv, OwnStream
  <2>3. t # MaxType
    BY OpenAssumption DEF StreamId
  <2> QED BY <2>1, <2>2, <2>3 DEF IInv, Unindexed
<1> QED BY <1>1, OpenInvariant, PTL
-----------------------------------------------------------------------------
(* The control device.                                                         *)

\* A word, and the one behind it when the requests are rs.
Word == [req : Nat, pos : Nat]
Behind(w, rs) == IF w.pos < rs[w.req].size THEN [req |-> w.req, pos |-> w.pos + 1]
                 ELSE [req |-> w.req + 1, pos |-> 1]

\* Words of the requests rs, each behind the one before it and, within a
\* request, at any distance; from is the first of them, to is behind the last.
Named(s, rs) ==
  s \in Seq(Word) /\ \A i \in 1..Len(s) : /\ s[i].req \in 1..Len(rs)
                                          /\ s[i].pos \in 1..rs[s[i].req].size
Chained(s, rs) ==
  \A i \in 1..Len(s) :
    /\ \A d \in 0..Len(s) - i : s[i].pos + d <= rs[s[i].req].size =>
          s[i + d] = [req |-> s[i].req, pos |-> s[i].pos + d]
    /\ i < Len(s) => s[i + 1] = Behind(s[i], rs)
Between(s, rs, from, to) ==
  IF s = <<>> THEN from = to ELSE s[1] = from /\ to = Behind(s[Len(s)], rs)
Stream(s, rs, from, to) == Named(s, rs) /\ Chained(s, rs) /\ Between(s, rs, from, to)

\* Requests that are dealt with; the first word of the next one; the word the
\* client writes next; what has been written and not been dealt with.
Dealt == first + Len(handled)
Start(r) == [req |-> r, pos |-> 1]
ToWrite == IF Whole THEN Start(Len(asked) + 1) ELSE [req |-> Len(asked), pos |-> written + 1]
Pending == IF state \in {"idle", "rx"} THEN buf \o in ELSE in

\* Types of the client, of the fifos and of the thread.
ClientType ==
  /\ open \in BOOLEAN /\ astray \in BOOLEAN
  /\ asked \in Seq(Request) /\ Len(asked) <= MaxRequests
  /\ first \in 0..Len(asked) /\ written \in Nat
  /\ asked # <<>> => written <= asked[Len(asked)].size
  /\ ~open => Whole
FifoType ==
  /\ Named(in, asked) /\ Len(in) <= Fifo
  /\ out \in Seq(Word) /\ Len(out) <= Fifo /\ due \in Seq(Word)
  /\ handled \in Seq([req : Nat, size : Nat])
ThreadType ==
  /\ state \in {"idle", "rx", "skip", "tx"}
  /\ Named(buf, asked) /\ Len(buf) <= Capacity /\ size \in Nat /\ skipped \in Nat
  /\ reply \in [req : Nat, size : 0..Capacity] /\ tx \in 0..reply.size
  /\ state = "idle" => Len(buf) < Header
  /\ state = "rx" => Header <= Len(buf) /\ Len(buf) <= size /\ size <= Capacity
  /\ state = "skip" => Header <= Len(buf) /\ astray /\ skipped < size

\* Unless it is astray the thread has before it what the client wrote.
InOrder ==
  ~astray =>
    /\ Stream(Pending, asked, Start(Dealt + 1), ToWrite)
    /\ state = "rx" => size = asked[Dealt + 1].size
    /\ out \o Unsent = due
    /\ \A i \in 1..Len(handled) : handled[i].req = first + i

ConnectionInv == ClientType /\ FifoType /\ ThreadType /\ InOrder
-----------------------------------------------------------------------------
(* Sequences.                                                                  *)

\* Every request has a header.
LEMMA RequestSize ==
  ASSUME NEW rs \in Seq(Request), NEW i \in 1..Len(rs)
  PROVE  rs[i] \in Request /\ rs[i].size \in Nat /\ rs[i].size >= Header /\ rs[i].size >= 1
<1>1. rs[i] \in Request
  OBVIOUS
<1> QED BY <1>1, ConnectionAssumption

\* Words are a sequence of words.
LEMMA WordsSeq ==
  \A no, a, b \in Nat : a <= b =>
    /\ Words(no, a, b) \in Seq(Word) /\ Len(Words(no, a, b)) = b - a
    /\ \A k \in 1..b - a : Words(no, a, b)[k] = [req |-> no, pos |-> a + k]
<1> SUFFICES ASSUME NEW no \in Nat, NEW a \in Nat, NEW b \in Nat, a <= b
    PROVE  /\ Words(no, a, b) \in Seq(Word) /\ Len(Words(no, a, b)) = b - a
           /\ \A k \in 1..b - a : Words(no, a, b)[k] = [req |-> no, pos |-> a + k]
  OBVIOUS
<1>1. b - a \in Nat
  OBVIOUS
<1>2. \A k \in 1..b - a : [req |-> no, pos |-> a + k] \in Word
  BY DEF Word
<1> QED BY <1>1, <1>2 DEF Words

\* One of them.
LEMMA WordsAt ==
  \A no, a, b, k \in Nat : a < b /\ 1 <= k /\ k <= b - a =>
    Words(no, a, b)[k] = [req |-> no, pos |-> a + k]
<1> SUFFICES ASSUME NEW no \in Nat, NEW a \in Nat, NEW b \in Nat, NEW k \in Nat,
                    a < b, 1 <= k, k <= b - a
             PROVE  Words(no, a, b)[k] = [req |-> no, pos |-> a + k]
  OBVIOUS
<1>1. k \in 1..b - a
  OBVIOUS
<1> QED BY <1>1 DEF Words

\* Words of a request, in two pieces.
Pieces(no, a, b, c) == Words(no, a, c) = Words(no, a, b) \o Words(no, b, c)
LEMMA WordsSplit ==
  ASSUME NEW no \in Nat, NEW a \in Nat, NEW b \in Nat, NEW c \in Nat, a <= b, b <= c
  PROVE  Pieces(no, a, b, c)
<1> DEFINE u == Words(no, a, b)
           v == Words(no, b, c)
           w == Words(no, a, c)
<1>0. a <= c /\ b - a \in Nat /\ c - b \in Nat /\ c - a = (b - a) + (c - b)
  OBVIOUS
<1>1. /\ u \in Seq(Word) /\ Len(u) = b - a
      /\ \A k \in 1..b - a : u[k] = [req |-> no, pos |-> a + k]
  BY WordsSeq
<1>2. /\ v \in Seq(Word) /\ Len(v) = c - b
      /\ \A k \in 1..c - b : v[k] = [req |-> no, pos |-> b + k]
  BY WordsSeq
<1>3. /\ w \in Seq(Word) /\ Len(w) = c - a
      /\ \A k \in 1..c - a : w[k] = [req |-> no, pos |-> a + k]
  BY <1>0, WordsSeq
<1> HIDE DEF u, v, w
<1>4. /\ u \o v \in Seq(Word) /\ Len(u \o v) = Len(u) + Len(v)
      /\ \A i \in 1..Len(u) + Len(v) :
           (u \o v)[i] = IF i <= Len(u) THEN u[i] ELSE v[i - Len(u)]
  BY <1>1, <1>2, ConcatProperties
<1>5. \A i \in 1..Len(w) : w[i] = (u \o v)[i]
  <2> SUFFICES ASSUME NEW i \in 1..Len(w) PROVE w[i] = (u \o v)[i]
    OBVIOUS
  <2>1. CASE i <= b - a
    <3>1. i \in 1..b - a /\ i \in 1..c - a /\ i \in 1..Len(u) + Len(v) /\ i <= Len(u)
      BY <2>1, <1>0, <1>1, <1>2, <1>3
    <3> QED BY <3>1, <1>1, <1>3, <1>4
  <2>2. CASE ~(i <= b - a)
    <3>1. /\ i - (b - a) \in 1..c - b /\ b + (i - (b - a)) = a + i
          /\ i \in 1..c - a /\ i \in 1..Len(u) + Len(v) /\ ~(i <= Len(u))
      BY <2>2, <1>0, <1>1, <1>2, <1>3, SMTT(30)
    <3>2. (u \o v)[i] = v[i - (b - a)]
      BY <3>1, <1>1, <1>4
    <3> QED BY <3>1, <3>2, <1>2, <1>3
  <2> QED BY <2>1, <2>2, <1>0, <1>3
<1>6. Len(w) = Len(u \o v)
  BY <1>0, <1>1, <1>2, <1>3, <1>4
<1>7. w = u \o v
  BY <1>3, <1>4, <1>5, <1>6, SeqEqual
<1> QED BY <1>7 DEF u, v, w, Pieces

\* Three pieces are joined in either order.
Joined(u, v, w) == (u \o v) \o w = u \o (v \o w)
LEMMA JoinAssociates ==
  ASSUME NEW u \in Seq(Word), NEW v \in Seq(Word), NEW w \in Seq(Word)
  PROVE  Joined(u, v, w)
BY ConcatAssociative DEF Joined

\* What is dropped and what is left.
LEMMA Dropped ==
  ASSUME NEW S, NEW s \in Seq(S), NEW n \in 0..Len(s)
  PROVE  /\ Drop(s, n) \in Seq(S) /\ Len(Drop(s, n)) = Len(s) - n
         /\ \A i \in 1..Len(s) - n : Drop(s, n)[i] = s[n + i]
         /\ SubSeq(s, 1, n) \in Seq(S) /\ Len(SubSeq(s, 1, n)) = n
         /\ \A i \in 1..n : SubSeq(s, 1, n)[i] = s[i]
         /\ SubSeq(s, 1, n) \o Drop(s, n) = s
<1>1. Len(s) \in Nat /\ n \in Nat
  OBVIOUS
<1>2. /\ Drop(s, n) \in Seq(S)
      /\ Len(Drop(s, n)) = Len(s) - n
      /\ \A i \in 1..Len(s) - n : Drop(s, n)[i] = s[n + i]
  BY <1>1 DEF Drop
<1>3. /\ SubSeq(s, 1, n) \in Seq(S) /\ Len(SubSeq(s, 1, n)) = n
      /\ \A i \in 1..n : SubSeq(s, 1, n)[i] = s[i]
  BY <1>1
<1>4. SubSeq(s, 1, n) \o SubSeq(s, n + 1, Len(s)) = SubSeq(s, 1, Len(s))
  <2>1. 1 \in 1..Len(s) + 1 /\ n \in 1 - 1..Len(s) /\ Len(s) \in n..Len(s)
    BY <1>1
  <2> QED BY <2>1, ConcatAdjacentSubSeq
<1>5. SubSeq(s, 1, Len(s)) = s
  BY SubSeqFull
<1> QED BY <1>2, <1>3, <1>4, <1>5 DEF Drop

\* Taking words from the fifo into the buffer moves them, and no more.
LEMMA Taken ==
  ASSUME NEW S, NEW b \in Seq(S), NEW s \in Seq(S), NEW n \in 0..Len(s)
  PROVE  (b \o SubSeq(s, 1, n)) \o Drop(s, n) = b \o s
<1>1. \A u, v \in Seq(S) : (b \o u) \o v = b \o (u \o v)
  BY ConcatAssociative, SMTT(30)
<1>2. SubSeq(s, 1, n) \in Seq(S) /\ Drop(s, n) \in Seq(S) /\ SubSeq(s, 1, n) \o Drop(s, n) = s
  BY Dropped
<1>3. (b \o SubSeq(s, 1, n)) \o Drop(s, n) = b \o (SubSeq(s, 1, n) \o Drop(s, n))
  BY <1>1, <1>2, Zenon
<1> QED BY <1>2, <1>3, Zenon

\* Dropping the words in front of a concatenation.
LEMMA DroppedInFront ==
  ASSUME NEW S, NEW s \in Seq(S), NEW t \in Seq(S), NEW n \in 0..Len(s)
  PROVE  Drop(s \o t, n) = Drop(s, n) \o t
<1> DEFINE w == s \o t
<1>1. /\ w \in Seq(S) /\ Len(w) = Len(s) + Len(t)
      /\ \A i \in 1..Len(s) + Len(t) : w[i] = IF i <= Len(s) THEN s[i] ELSE t[i - Len(s)]
  BY ConcatProperties
<1>2. Len(s) \in Nat /\ Len(t) \in Nat /\ n \in Nat
  OBVIOUS
<1> HIDE DEF w
<1>3. n \in 0..Len(w)
  BY <1>1, <1>2
<1>4. /\ Drop(w, n) \in Seq(S) /\ Len(Drop(w, n)) = Len(w) - n
      /\ \A i \in 1..Len(w) - n : Drop(w, n)[i] = w[n + i]
  BY <1>1, <1>3, Dropped
<1> DEFINE u == Drop(s, n)
<1>5. /\ u \in Seq(S) /\ Len(u) = Len(s) - n
      /\ \A i \in 1..Len(s) - n : u[i] = s[n + i]
  BY Dropped
<1> HIDE DEF u
<1>6. /\ u \o t \in Seq(S) /\ Len(u \o t) = Len(u) + Len(t)
      /\ \A i \in 1..Len(u) + Len(t) :
           (u \o t)[i] = IF i <= Len(u) THEN u[i] ELSE t[i - Len(u)]
  BY <1>5, ConcatProperties
<1>7. \A i \in 1..Len(w) - n : Drop(w, n)[i] = (u \o t)[i]
  <2> SUFFICES ASSUME NEW i \in 1..Len(w) - n PROVE Drop(w, n)[i] = (u \o t)[i]
    OBVIOUS
  <2>1. CASE i <= Len(s) - n
    <3>1. /\ n + i \in 1..Len(s) + Len(t) /\ n + i <= Len(s)
          /\ i \in 1..Len(u) + Len(t) /\ i <= Len(u) /\ i \in 1..Len(s) - n
      BY <2>1, <1>1, <1>2, <1>5
    <3>2. w[n + i] = s[n + i]
      BY <3>1, <1>1
    <3>3. (u \o t)[i] = u[i] /\ u[i] = s[n + i]
      BY <3>1, <1>5, <1>6
    <3> QED BY <3>2, <3>3, <1>4
  <2>2. CASE ~(i <= Len(s) - n)
    <3>1. /\ n + i \in 1..Len(s) + Len(t) /\ ~(n + i <= Len(s))
          /\ i \in 1..Len(u) + Len(t) /\ ~(i <= Len(u))
          /\ n + i - Len(s) = i - Len(u)
      BY <2>2, <1>1, <1>2, <1>5
    <3> QED BY <3>1, <1>1, <1>4, <1>6, SMTT(30)
  <2>3. Len(s) - n \in Int /\ i \in Int
    BY <1>1, <1>2
  <2> QED BY <2>1, <2>2, <2>3
<1>8. Drop(w, n) = u \o t
  <2>1. Len(Drop(w, n)) = Len(u \o t)
    BY <1>1, <1>2, <1>4, <1>5, <1>6
  <2> QED BY <2>1, <1>4, <1>6, <1>7, SeqEqual
<1> QED BY <1>8 DEF w, u

-----------------------------------------------------------------------------
(* What the client writes, rs the thread finds it.                             *)

\* A word's request has a size.
LEMMA WordOf ==
  ASSUME NEW rs \in Seq(Request), NEW s, Named(s, rs), NEW i \in 1..Len(s)
  PROVE  /\ s[i] \in Word /\ s[i].req \in 1..Len(rs) /\ s[i].pos \in 1..rs[s[i].req].size
         /\ rs[s[i].req].size \in Nat /\ Len(s) \in Nat
         /\ s[i] = [req |-> s[i].req, pos |-> s[i].pos]
<1>1. s \in Seq(Word) /\ s[i] \in Word /\ Len(s) \in Nat
  BY DEF Named
<1>2. s[i].req \in 1..Len(rs) /\ s[i].pos \in 1..rs[s[i].req].size
  BY DEF Named
<1>3. rs[s[i].req].size \in Nat
  BY <1>2, RequestSize
<1>4. s[i] = [req |-> s[i].req, pos |-> s[i].pos]
  BY <1>1 DEF Word
<1> QED BY <1>1, <1>2, <1>3, <1>4

\* The first words are those of the next request.
LEMMA Front ==
  ASSUME NEW rs \in Seq(Request), NEW s, NEW r \in Nat, NEW to,
         Stream(s, rs, Start(r), to), NEW i \in 1..Len(s)
  PROVE  /\ r \in 1..Len(rs)
         /\ i <= rs[r].size => s[i] = [req |-> r, pos |-> i]
<1>1. Len(s) \in Nat /\ s # <<>> /\ 1 \in 1..Len(s)
  BY DEF Stream, Named
<1>2. s[1] = Start(r)
  BY <1>1 DEF Stream, Between
<1>3. r \in 1..Len(rs)
  <2>1. Named(s, rs) /\ s[1].req = r
    BY <1>2 DEF Stream, Start
  <2>2. s[1].req \in 1..Len(rs)
    BY <1>1, <2>1, WordOf
  <2> QED BY <2>1, <2>2
<1>4. ASSUME i <= rs[r].size PROVE s[i] = [req |-> r, pos |-> i]
  <2>1. i - 1 \in 0..Len(s) - 1 /\ 1 + (i - 1) = i
    BY <1>1
  <2>2. s[1].pos + (i - 1) <= rs[s[1].req].size =>
          s[1 + (i - 1)] = [req |-> s[1].req, pos |-> s[1].pos + (i - 1)]
    BY <1>1, <2>1 DEF Stream, Chained
  <2>3. s[1].req = r /\ s[1].pos = 1
    BY <1>2 DEF Start
  <2> QED BY <1>4, <2>1, <2>2, <2>3
<1> QED BY <1>3, <1>4

\* A request taken off leaves the next one.
LEMMA Eaten ==
  ASSUME NEW rs \in Seq(Request), NEW s, NEW r \in 1..Len(rs), NEW to,
         Stream(s, rs, Start(r), to), NEW n, n = rs[r].size, n <= Len(s)
  PROVE  Stream(Drop(s, n), rs, Start(r + 1), to)
<1> DEFINE t == Drop(s, n)
<1>1. n \in Nat /\ n >= 1 /\ s \in Seq(Word) /\ Len(s) \in Nat /\ n \in 1..Len(s) /\ r \in Nat
  <2>1. s \in Seq(Word) /\ Len(s) \in Nat
    BY DEF Stream, Named
  <2>2. n \in Nat /\ n >= 1 /\ r \in Nat
    BY RequestSize
  <2>3. n \in 1..Len(s)
    BY <2>1, <2>2
  <2> QED BY <2>1, <2>2, <2>3
<1>2. /\ t \in Seq(Word) /\ Len(t) = Len(s) - n
      /\ \A i \in 1..Len(s) - n : t[i] = s[n + i]
  <2>1. n \in 0..Len(s)
    BY <1>1
  <2>2. t \in Seq(Word) /\ Len(t) = Len(s) - n
    BY <1>1, <2>1, Dropped
  <2>3. ASSUME NEW i \in 1..Len(s) - n PROVE t[i] = s[n + i]
    BY <1>1, <2>1, Dropped
  <2> QED BY <2>2, <2>3
<1>3. s[n] = [req |-> r, pos |-> n]
  BY <1>1, Front
<1> HIDE DEF t
<1>4. Behind(s[n], rs) = Start(r + 1)
  <2>1. s[n].req = r /\ s[n].pos = n /\ ~(n < rs[r].size)
    BY <1>1, <1>3
  <2> QED BY <2>1 DEF Behind, Start
<1>5. Named(t, rs)
  <2>1. ASSUME NEW i \in 1..Len(t)
        PROVE  t[i].req \in 1..Len(rs) /\ t[i].pos \in 1..rs[t[i].req].size
    <3>1. t[i] = s[n + i] /\ n + i \in 1..Len(s)
      BY <1>1, <1>2, SMTT(30)
    <3>2. Named(s, rs)
      BY DEF Stream
    <3>3. s[n + i].req \in 1..Len(rs) /\ s[n + i].pos \in 1..rs[s[n + i].req].size
      BY <3>1, <3>2, WordOf
    <3> QED BY <3>1, <3>3
  <2> QED BY <1>2, <2>1 DEF Named
<1>6. Chained(t, rs)
  <2> SUFFICES ASSUME NEW i \in 1..Len(t)
               PROVE  /\ \A d \in 0..Len(t) - i : t[i].pos + d <= rs[t[i].req].size =>
                            t[i + d] = [req |-> t[i].req, pos |-> t[i].pos + d]
                      /\ i < Len(t) => t[i + 1] = Behind(t[i], rs)
    BY DEF Chained
  <2>1. t[i] = s[n + i] /\ n + i \in 1..Len(s)
    BY <1>1, <1>2, SMTT(30)
  <2>2. ASSUME NEW d \in 0..Len(t) - i, t[i].pos + d <= rs[t[i].req].size
        PROVE  t[i + d] = [req |-> t[i].req, pos |-> t[i].pos + d]
    <3>1. d \in 0..Len(s) - (n + i) /\ i + d \in 1..Len(s) - n /\ n + (i + d) = (n + i) + d
      BY <1>1, <1>2, SMTT(30)
    <3>2. s[(n + i) + d] = [req |-> s[n + i].req, pos |-> s[n + i].pos + d]
      BY <2>1, <2>2, <3>1 DEF Stream, Chained
    <3> QED BY <1>2, <2>1, <3>1, <3>2
  <2>3. ASSUME i < Len(t) PROVE t[i + 1] = Behind(t[i], rs)
    <3>1. n + i < Len(s) /\ i + 1 \in 1..Len(s) - n /\ n + (i + 1) = (n + i) + 1
      BY <1>1, <1>2, <2>3
    <3>2. s[(n + i) + 1] = Behind(s[n + i], rs)
      BY <2>1, <3>1 DEF Stream, Chained
    <3> QED BY <1>2, <2>1, <3>1, <3>2
  <2> QED BY <2>2, <2>3
<1>7. Between(t, rs, Start(r + 1), to)
  <2>0. s # <<>> /\ to = Behind(s[Len(s)], rs)
    BY <1>1 DEF Stream, Between
  <2>1. CASE n = Len(s)
    <3>1. t = <<>>
      BY <1>1, <1>2, <2>1
    <3> QED BY <3>1, <2>0, <2>1, <1>4 DEF Between
  <2>2. CASE n # Len(s)
    <3>1. n < Len(s) /\ 1 \in 1..Len(s) - n /\ Len(t) \in 1..Len(s) - n
          /\ n + Len(t) = Len(s) /\ n \in 1..Len(s)
      BY <1>1, <1>2, <2>2
    <3>2. t[1] = Start(r + 1)
      BY <1>2, <1>4, <3>1 DEF Stream, Chained
    <3>3. t[Len(t)] = s[n + Len(t)] /\ Len(t) # 0
      <4>1. \A i \in 1..Len(s) - n : t[i] = s[n + i]
        BY <1>2
      <4>2. t[Len(t)] = s[n + Len(t)]
        BY <4>1, <3>1
      <4>3. Len(t) # 0
        BY <3>1
      <4> QED BY <4>2, <4>3
    <3>4. t[Len(t)] = s[Len(s)] /\ t # <<>>
      BY <3>1, <3>3
    <3> QED BY <3>2, <3>4, <2>0 DEF Between
  <2> QED BY <2>1, <2>2
<1> QED BY <1>5, <1>6, <1>7 DEF Stream, t

\* A new request is the last.
LEMMA Appended ==
  ASSUME NEW S, NEW q \in Seq(S), NEW e \in S
  PROVE  /\ Append(q, e) \in Seq(S) /\ Len(Append(q, e)) = Len(q) + 1 /\ Len(q) \in Nat
         /\ \A i \in 1..Len(q) : Append(q, e)[i] = q[i]
         /\ Append(q, e)[Len(q) + 1] = e
OBVIOUS

\* A new request changes nothing before it.
LEMMA NamedStill ==
  ASSUME NEW rs \in Seq(Request), NEW m \in Request, NEW s, Named(s, rs)
  PROVE  Named(s, Append(rs, m))
<1> DEFINE more == Append(rs, m)
<1>1. /\ Len(more) = Len(rs) + 1 /\ Len(rs) \in Nat
      /\ \A i \in 1..Len(rs) : more[i] = rs[i]
  BY Appended
<1> HIDE DEF more
<1>2. s \in Seq(Word)
  BY DEF Named
<1>3. ASSUME NEW i \in 1..Len(s)
      PROVE  s[i].req \in 1..Len(more) /\ s[i].pos \in 1..more[s[i].req].size
  <2>1. s[i].req \in 1..Len(rs) /\ s[i].pos \in 1..rs[s[i].req].size
    BY DEF Named
  <2> QED BY <2>1, <1>1
<1>4. Named(s, more)
  BY <1>2, <1>3 DEF Named
<1> QED BY <1>4 DEF more

\* Nor does it change what is behind what.
LEMMA StreamStill ==
  ASSUME NEW rs \in Seq(Request), NEW m \in Request, NEW s, NEW from, NEW to,
         Stream(s, rs, from, to)
  PROVE  Stream(s, Append(rs, m), from, to)
<1> DEFINE more == Append(rs, m)
<1>1. \A i \in 1..Len(rs) : more[i] = rs[i]
  BY Appended
<1> HIDE DEF more
<1>2. \A i \in 1..Len(s) : more[s[i].req] = rs[s[i].req]
  BY <1>1 DEF Stream, Named
<1>3. \A i \in 1..Len(s) : Behind(s[i], more) = Behind(s[i], rs)
  BY <1>2 DEF Behind
<1>4. Chained(s, more)
  BY <1>2, <1>3 DEF Stream, Chained
<1>5. Between(s, more, from, to)
  <2>1. CASE s = <<>>
    BY <2>1 DEF Stream, Between
  <2>2. CASE s # <<>>
    <3>1. Len(s) \in 1..Len(s)
      BY <2>2 DEF Stream, Named
    <3> QED BY <3>1, <1>3, <2>2 DEF Stream, Between
  <2> QED BY <2>1, <2>2
<1>6. Named(s, more)
  BY NamedStill DEF Stream, more
<1> QED BY <1>4, <1>5, <1>6 DEF Stream, more

\* What is written goes behind the rest.
LEMMA Grown ==
  ASSUME NEW rs \in Seq(Request), NEW no, no = Len(rs), rs # <<>>,
         NEW a \in Nat, NEW b \in Nat, a < b, b <= rs[no].size,
         NEW s, NEW from, Stream(s, rs, from, [req |-> no, pos |-> a + 1])
  PROVE  Stream(s \o Words(no, a, b), rs, from,
                IF b = rs[no].size THEN Start(no + 1) ELSE [req |-> no, pos |-> b + 1])
<1> DEFINE w == Words(no, a, b)
           t == s \o w
           to == IF b = rs[no].size THEN Start(no + 1) ELSE [req |-> no, pos |-> b + 1]
<1>1. no \in 1..Len(rs) /\ no \in Nat /\ rs[no].size \in Nat
  <2>1. no \in 1..Len(rs) /\ no \in Nat
    OBVIOUS
  <2> QED BY <2>1, RequestSize
<1>2. /\ w \in Seq(Word) /\ Len(w) = b - a
      /\ \A k \in 1..b - a : w[k] = [req |-> no, pos |-> a + k]
  <2>1. a <= b /\ no \in Nat
    BY <1>1
  <2>2. w \in Seq(Word) /\ Len(w) = b - a
    BY <2>1, WordsSeq
  <2>3. ASSUME NEW k \in 1..b - a PROVE w[k] = [req |-> no, pos |-> a + k]
    <3>1. k \in Nat /\ 1 <= k /\ k <= b - a
      OBVIOUS
    <3> QED BY <2>1, <3>1, WordsAt
  <2> QED BY <2>2, <2>3
<1>3. s \in Seq(Word) /\ Len(s) \in Nat /\ Named(s, rs) /\ Chained(s, rs)
  BY DEF Stream, Named
<1> HIDE DEF w
<1>4. /\ t \in Seq(Word) /\ Len(t) = Len(s) + Len(w)
      /\ \A i \in 1..Len(s) + Len(w) : t[i] = IF i <= Len(s) THEN s[i] ELSE w[i - Len(s)]
  BY <1>2, <1>3, ConcatProperties
<1> HIDE DEF t
<1>5. /\ Len(t) = Len(s) + (b - a) /\ b - a \in Nat /\ b - a >= 1 /\ Len(t) \in Nat
      /\ \A i \in 1..Len(s) : t[i] = s[i]
      /\ \A k \in 1..b - a : t[Len(s) + k] = [req |-> no, pos |-> a + k]
  <2>1. ASSUME NEW i \in 1..Len(s) PROVE t[i] = s[i]
    <3>1. i \in 1..Len(s) + Len(w) /\ i <= Len(s)
      BY <1>2, <1>3
    <3> QED BY <3>1, <1>4
  <2>2. ASSUME NEW k \in 1..b - a PROVE t[Len(s) + k] = [req |-> no, pos |-> a + k]
    <3>1. /\ Len(s) + k \in 1..Len(s) + Len(w) /\ ~(Len(s) + k <= Len(s))
          /\ (Len(s) + k) - Len(s) = k
      BY <1>2, <1>3
    <3> QED BY <3>1, <1>2, <1>4
  <2>3. b - a \in Nat /\ b - a >= 1
    OBVIOUS
  <2>4. Len(t) = Len(s) + (b - a) /\ Len(t) \in Nat
    BY <2>3, <1>2, <1>3, <1>4
  <2> QED BY <2>1, <2>2, <2>3, <2>4
\* The last word there was is the one before those.
<1>6. ASSUME s # <<>>
      PROVE  /\ Len(s) \in 1..Len(s)
             /\ Behind(s[Len(s)], rs) = [req |-> no, pos |-> a + 1]
             /\ a > 0 => s[Len(s)] = [req |-> no, pos |-> a]
             /\ a = 0 => s[Len(s)].pos = rs[s[Len(s)].req].size
  <2>1. Len(s) \in 1..Len(s)
    BY <1>3, <1>6
  <2> DEFINE e == s[Len(s)]
  <2>2. Behind(e, rs) = [req |-> no, pos |-> a + 1]
    BY <1>6 DEF Stream, Between
  <2>3. /\ e.req \in 1..Len(rs) /\ e.pos \in 1..rs[e.req].size /\ rs[e.req].size \in Nat
        /\ e = [req |-> e.req, pos |-> e.pos]
    BY <1>3, <2>1, WordOf
  <2> HIDE DEF e
  <2>4. CASE e.pos < rs[e.req].size
    <3>1. [req |-> e.req, pos |-> e.pos + 1] = [req |-> no, pos |-> a + 1]
      BY <2>2, <2>4 DEF Behind
    <3>2. e.req = no /\ e.pos + 1 = a + 1
      BY <3>1
    <3>3. e.pos = a /\ a # 0
      BY <3>2, <2>3
    <3> QED BY <2>1, <2>2, <2>3, <3>2, <3>3 DEF e
  <2>5. CASE ~(e.pos < rs[e.req].size)
    <3>1. [req |-> e.req + 1, pos |-> 1] = [req |-> no, pos |-> a + 1]
      BY <2>2, <2>5 DEF Behind
    <3>2. 1 = a + 1
      BY <3>1
    <3>3. a = 0
      BY <3>2
    <3>4. e.pos = rs[e.req].size
      BY <2>3, <2>5
    <3> QED BY <2>1, <2>2, <3>3, <3>4 DEF e
  <2> QED BY <2>4, <2>5
<1>7. Named(t, rs)
  <2>1. ASSUME NEW i \in 1..Len(t)
        PROVE  t[i].req \in 1..Len(rs) /\ t[i].pos \in 1..rs[t[i].req].size
    <3>1. CASE i <= Len(s)
      <4>1. i \in 1..Len(s)
        BY <3>1, <1>3
      <4>2. s[i].req \in 1..Len(rs) /\ s[i].pos \in 1..rs[s[i].req].size
        BY <4>1, <1>3, WordOf
      <4> QED BY <4>1, <4>2, <1>5
    <3>2. CASE ~(i <= Len(s))
      <4> DEFINE k == i - Len(s)
      <4>1. k \in 1..b - a /\ Len(s) + k = i /\ a + k \in 1..rs[no].size
        BY <3>2, <1>1, <1>3, <1>5
      <4> HIDE DEF k
      <4>2. t[i] = [req |-> no, pos |-> a + k]
        BY <4>1, <1>5
      <4> QED BY <4>1, <4>2, <1>1
    <3> QED BY <3>1, <3>2
  <2> QED BY <2>1, <1>4 DEF Named
<1>8. ASSUME NEW i \in 1..Len(t), NEW d \in 0..Len(t) - i, t[i].pos + d <= rs[t[i].req].size
      PROVE  t[i + d] = [req |-> t[i].req, pos |-> t[i].pos + d]
  <2>0. i + d \in 1..Len(t) /\ d \in Nat /\ i \in Nat
    BY <1>5, SMTT(30)
  <2>1. CASE i + d <= Len(s)
    <3>1. i \in 1..Len(s) /\ i + d \in 1..Len(s) /\ d \in 0..Len(s) - i
      BY <2>0, <2>1, <1>3
    <3>2. t[i] = s[i] /\ t[i + d] = s[i + d]
      BY <3>1, <1>5
    <3> QED BY <3>1, <3>2, <1>3, <1>8 DEF Chained
  <2>2. CASE ~(i <= Len(s))
    <3> DEFINE k == i - Len(s)
    <3>1. /\ k \in 1..b - a /\ Len(s) + k = i
          /\ k + d \in 1..b - a /\ Len(s) + (k + d) = i + d /\ a + (k + d) = (a + k) + d
      BY <2>0, <2>2, <1>3, <1>5
    <3> HIDE DEF k
    <3>2. t[i] = [req |-> no, pos |-> a + k] /\ t[i + d] = [req |-> no, pos |-> a + (k + d)]
      BY <3>1, <1>5
    <3> QED BY <3>1, <3>2
  <2>3. CASE i <= Len(s) /\ ~(i + d <= Len(s))
    <3> DEFINE f == Len(s) - i
               k == d - f
    <3>1. /\ i \in 1..Len(s) /\ f \in 0..Len(s) - i /\ i + f = Len(s)
          /\ k \in 1..b - a /\ Len(s) + k = i + d /\ k >= 1 /\ d = f + k /\ f \in Nat
      BY <2>0, <2>3, <1>3, <1>5
    <3> HIDE DEF f, k
    <3>2. s # <<>> /\ t[i] = s[i]
      <4>1. Len(s) # 0
        BY <3>1
      <4>2. t[i] = s[i]
        BY <3>1, <1>5
      <4> QED BY <4>1, <4>2
    <3>3. /\ s[i].req \in 1..Len(rs) /\ s[i].pos \in Nat /\ rs[s[i].req].size \in Nat
      <4>1. /\ s[i].req \in 1..Len(rs) /\ s[i].pos \in 1..rs[s[i].req].size
            /\ rs[s[i].req].size \in Nat
        BY <3>1, <1>3, WordOf
      <4> QED BY <4>1
    <3>4. s[i].pos + d <= rs[s[i].req].size
      BY <1>8, <3>2
    <3>5. s[i].pos + f <= rs[s[i].req].size /\ s[i].pos + f # rs[s[i].req].size
      BY <3>1, <3>3, <3>4, SMTT(30)
    <3>6. s[i + f] = [req |-> s[i].req, pos |-> s[i].pos + f]
      BY <3>1, <3>5, <1>3 DEF Chained
    <3>7. s[Len(s)].req = s[i].req /\ s[Len(s)].pos = s[i].pos + f
      BY <3>1, <3>6, SMTT(30)
    <3>8. a > 0
      BY <3>2, <3>5, <3>7, <1>6
    <3>9. s[Len(s)] = [req |-> no, pos |-> a]
      BY <3>2, <3>8, <1>6
    <3>10. s[i].req = no /\ s[i].pos + f = a
      BY <3>7, <3>9
    <3>11. t[i + d] = [req |-> no, pos |-> a + k]
      BY <3>1, <1>5
    <3>12. a + k = s[i].pos + d
      <4> DEFINE p == s[i].pos
      <4>1. p \in Nat /\ p + f = a /\ d = f + k /\ f \in Nat /\ k \in Int
        BY <3>1, <3>3, <3>10
      <4> HIDE DEF p
      <4>2. a + k = p + d
        BY <4>1
      <4> QED BY <4>2 DEF p
    <3> QED BY <3>2, <3>10, <3>11, <3>12
  <2> QED BY <2>1, <2>2, <2>3
<1>9. ASSUME NEW i \in 1..Len(t), i < Len(t) PROVE t[i + 1] = Behind(t[i], rs)
  <2>1. CASE i < Len(s)
    <3>1. i \in 1..Len(s) /\ i + 1 \in 1..Len(s)
      BY <2>1, <1>3, <1>5
    <3>2. s[i + 1] = Behind(s[i], rs)
      BY <2>1, <3>1, <1>3 DEF Chained
    <3> QED BY <3>1, <3>2, <1>5
  <2>2. CASE i = Len(s)
    <3>1. s # <<>> /\ i \in 1..Len(s) /\ 1 \in 1..b - a
      BY <2>2, <1>3, <1>5
    <3> QED BY <2>2, <3>1, <1>5, <1>6
  <2>3. CASE i > Len(s)
    <3> DEFINE k == i - Len(s)
    <3>1. /\ k \in 1..b - a /\ Len(s) + k = i /\ k + 1 \in 1..b - a
          /\ Len(s) + (k + 1) = i + 1 /\ a + k < rs[no].size /\ a + (k + 1) = (a + k) + 1
      BY <2>3, <1>1, <1>3, <1>5, <1>9
    <3> HIDE DEF k
    <3>2. t[i] = [req |-> no, pos |-> a + k] /\ t[i + 1] = [req |-> no, pos |-> a + (k + 1)]
      BY <3>1, <1>5
    <3> QED BY <3>1, <3>2 DEF Behind
  <2> QED BY <2>1, <2>2, <2>3, <1>3, <1>5
<1>10. Between(t, rs, from, to)
  <2>1. Len(t) \in 1..Len(t) /\ t # <<>> /\ b - a \in 1..b - a /\ Len(s) + (b - a) = Len(t)
    BY <1>3, <1>5
  <2>2. t[Len(t)] = [req |-> no, pos |-> a + (b - a)] /\ a + (b - a) = b
    <3>1. t[Len(s) + (b - a)] = [req |-> no, pos |-> a + (b - a)]
      BY <2>1, <1>5
    <3>2. a + (b - a) = b
      OBVIOUS
    <3> QED BY <2>1, <3>1, <3>2
  <2>3. to = Behind(t[Len(t)], rs)
    BY <2>2, <1>1 DEF Behind, Start
  <2>4. t[1] = from
    <3>1. CASE s = <<>>
      <4>1. Len(s) = 0 /\ 1 \in 1..b - a
        BY <3>1, <1>5
      <4>2. t[Len(s) + 1] = [req |-> no, pos |-> a + 1]
        BY <4>1, <1>5
      <4>3. from = [req |-> no, pos |-> a + 1]
        BY <3>1 DEF Stream, Between
      <4> QED BY <4>1, <4>2, <4>3
    <3>2. CASE s # <<>>
      <4>1. 1 \in 1..Len(s) /\ s[1] = from
        BY <3>2, <1>3 DEF Stream, Between
      <4> QED BY <4>1, <1>5
    <3> QED BY <3>1, <3>2
  <2> QED BY <2>1, <2>3, <2>4 DEF Between
<1>11. Chained(t, rs)
  BY <1>8, <1>9 DEF Chained
<1> QED BY <1>7, <1>10, <1>11 DEF Stream, t, w

\* Parts and concatenations of words of requests are such words.
LEMMA NamedParts ==
  ASSUME NEW rs \in Seq(Request), NEW s, Named(s, rs), NEW n \in 0..Len(s)
  PROVE  Named(SubSeq(s, 1, n), rs) /\ Named(Drop(s, n), rs)
<1> DEFINE u == SubSeq(s, 1, n)
           v == Drop(s, n)
<1>1. s \in Seq(Word) /\ Len(s) \in Nat /\ n \in Nat
  BY DEF Named
<1>2. /\ v \in Seq(Word) /\ Len(v) = Len(s) - n
      /\ \A i \in 1..Len(s) - n : v[i] = s[n + i]
      /\ u \in Seq(Word) /\ Len(u) = n
      /\ \A i \in 1..n : u[i] = s[i]
  BY <1>1, Dropped
<1> HIDE DEF u, v
<1>3. \A i \in 1..Len(s) : s[i].req \in 1..Len(rs) /\ s[i].pos \in 1..rs[s[i].req].size
  BY DEF Named
<1>4. ASSUME NEW i \in 1..Len(u)
      PROVE  u[i].req \in 1..Len(rs) /\ u[i].pos \in 1..rs[u[i].req].size
  <2>1. i \in 1..Len(s) /\ u[i] = s[i]
    BY <1>1, <1>2
  <2> QED BY <2>1, <1>3
<1>5. ASSUME NEW i \in 1..Len(v)
      PROVE  v[i].req \in 1..Len(rs) /\ v[i].pos \in 1..rs[v[i].req].size
  <2>1. n + i \in 1..Len(s) /\ v[i] = s[n + i]
    BY <1>1, <1>2
  <2> QED BY <2>1, <1>3
<1>6. Named(u, rs) /\ Named(v, rs)
  BY <1>2, <1>4, <1>5 DEF Named
<1> QED BY <1>6 DEF u, v

\* Words of requests one after the other.
LEMMA NamedJoin ==
  ASSUME NEW rs \in Seq(Request), NEW u, NEW v, Named(u, rs), Named(v, rs)
  PROVE  Named(u \o v, rs)
<1> DEFINE t == u \o v
<1>1. /\ u \in Seq(Word) /\ Len(u) \in Nat /\ v \in Seq(Word) /\ Len(v) \in Nat
      /\ \A i \in 1..Len(u) : u[i].req \in 1..Len(rs) /\ u[i].pos \in 1..rs[u[i].req].size
      /\ \A i \in 1..Len(v) : v[i].req \in 1..Len(rs) /\ v[i].pos \in 1..rs[v[i].req].size
  BY DEF Named
<1>2. /\ t \in Seq(Word) /\ Len(t) = Len(u) + Len(v)
      /\ \A i \in 1..Len(u) + Len(v) : t[i] = IF i <= Len(u) THEN u[i] ELSE v[i - Len(u)]
  BY <1>1, ConcatProperties
<1> HIDE DEF t
<1>3. ASSUME NEW i \in 1..Len(t)
      PROVE  t[i].req \in 1..Len(rs) /\ t[i].pos \in 1..rs[t[i].req].size
  <2>1. CASE i <= Len(u)
    <3>1. i \in 1..Len(u) /\ t[i] = u[i]
      BY <2>1, <1>1, <1>2
    <3> QED BY <3>1, <1>1
  <2>2. CASE ~(i <= Len(u))
    <3>1. i - Len(u) \in 1..Len(v) /\ t[i] = v[i - Len(u)]
      BY <2>2, <1>1, <1>2
    <3> QED BY <3>1, <1>1
  <2> QED BY <2>1, <2>2
<1>4. Named(t, rs)
  BY <1>2, <1>3 DEF Named
<1> QED BY <1>4 DEF t

\* Dropping all that stands in front.
LEMMA DropFront ==
  ASSUME NEW S, NEW u \in Seq(S), NEW v \in Seq(S), NEW n, n = Len(u)
  PROVE  Drop(u \o v, n) = v
<1>1. n \in 0..Len(u) /\ n \in Nat
  OBVIOUS
<1>2. Drop(u \o v, n) = Drop(u, n) \o v
  BY <1>1, DroppedInFront
<1>3. Drop(u, n) \in Seq(S) /\ Len(Drop(u, n)) = 0
  BY <1>1, Dropped
<1>4. Drop(u, n) = <<>>
  BY <1>3
<1> QED BY <1>2, <1>4

\* Taking n words: none is lost, none changes.
LEMMA Moved ==
  ASSUME NEW rs \in Seq(Request), NEW b, NEW s, Named(b, rs), Named(s, rs), NEW n \in 0..Len(s)
  PROVE  LET c == b \o SubSeq(s, 1, n)
             t == Drop(s, n)
         IN
         /\ Named(c, rs) /\ Named(t, rs) /\ c \o t = b \o s
         /\ Len(c) = Len(b) + n /\ Len(t) = Len(s) - n
         /\ Len(b) \in Nat /\ Len(s) \in Nat /\ n \in Nat
         /\ b \in Seq(Word) /\ s \in Seq(Word) /\ c \in Seq(Word) /\ t \in Seq(Word)
<1> DEFINE c == b \o SubSeq(s, 1, n)
           t == Drop(s, n)
<1>1. b \in Seq(Word) /\ s \in Seq(Word) /\ Len(b) \in Nat /\ Len(s) \in Nat /\ n \in Nat
  BY DEF Named
<1>2. Named(c, rs) /\ Named(t, rs)
  BY NamedParts, NamedJoin
<1>3. c \o t = b \o s
  BY <1>1, Taken
<1>4. /\ SubSeq(s, 1, n) \in Seq(Word) /\ Len(SubSeq(s, 1, n)) = n
      /\ t \in Seq(Word) /\ Len(t) = Len(s) - n
  BY <1>1, Dropped
<1>5. c \in Seq(Word) /\ Len(c) = Len(b) + n
  BY <1>1, <1>4, ConcatProperties
<1> QED BY <1>1, <1>2, <1>3, <1>4, <1>5

\* The smaller of two.
LEMMA SmallerOf ==
  ASSUME NEW m \in Nat, NEW n \in Nat
  PROVE  /\ Smaller(m, n) \in Nat /\ Smaller(m, n) <= m /\ Smaller(m, n) <= n
         /\ Smaller(m, n) \in 0..m
         /\ Smaller(m, n) = m \/ Smaller(m, n) = n
BY DEF Smaller

\* Every answer has room in the buffer.
LEMMA AnswerFits ==
  ASSUME NEW m \in Request, m.size <= Capacity, NEW length \in Nat, length \in Answer(m)
  PROVE  length <= Capacity
<1>1. /\ m.size \in Nat /\ m.n \in Nat /\ Header \in Nat /\ Args \in Nat /\ Args >= 1
      /\ Capacity > Header + Args
  BY ConnectionAssumption
<1>2. Capacity \in Int
  BY ConnectionAssumption
<1> QED BY <1>1, <1>2 DEF Answer, Malformed, Refused, Exact, Longer, Reads
-----------------------------------------------------------------------------
(* What the invariant says of the next request.                               *)

\* The numbers of the model.
LEMMA Sorts ==
  ASSUME ConnectionInv
  PROVE  /\ asked \in Seq(Request) /\ Len(asked) \in Nat /\ handled \in Seq([req : Nat, size : Nat])
         /\ Len(handled) \in Nat /\ first \in Nat /\ Dealt \in Nat
         /\ Named(in, asked) /\ Named(buf, asked)
         /\ Len(in) \in Nat /\ Len(buf) \in Nat
         /\ Header \in Nat /\ Header >= 1 /\ Capacity \in Nat /\ Fifo \in Nat
<1>1. /\ asked \in Seq(Request) /\ handled \in Seq([req : Nat, size : Nat])
      /\ first \in 0..Len(asked) /\ Named(in, asked) /\ Named(buf, asked)
  BY DEF ConnectionInv, ClientType, FifoType, ThreadType
<1>2. Len(asked) \in Nat /\ Len(handled) \in Nat
  BY <1>1
<1>3. Len(in) \in Nat /\ Len(buf) \in Nat
  BY <1>1 DEF Named
<1>4. Header \in Nat /\ Header >= 1 /\ Capacity \in Nat /\ Fifo \in Nat
  BY ConnectionAssumption
<1> QED BY <1>1, <1>2, <1>3, <1>4 DEF Dealt

\* What has been read of a request is its beginning.
LEMMA BufferFront ==
  ASSUME ConnectionInv, ~astray, NEW c, NEW t,
         Stream(c \o t, asked, Start(Dealt + 1), ToWrite),
         c \in Seq(Word), t \in Seq(Word), c # <<>>
  PROVE  /\ Dealt + 1 \in 1..Len(asked)
         /\ asked[Dealt + 1] \in Request
         /\ \A i \in 1..Len(c) : i <= asked[Dealt + 1].size => c[i] = [req |-> Dealt + 1, pos |-> i]
<1>1. PICK s : s = c \o t
  OBVIOUS
<1>2. PICK r : r = Dealt + 1
  OBVIOUS
<1>3. PICK to : to = ToWrite
  OBVIOUS
<1>4. PICK rs : rs = asked
  OBVIOUS
<1>5. rs \in Seq(Request) /\ r \in Nat /\ Stream(s, rs, Start(r), to)
  BY <1>1, <1>2, <1>3, <1>4, Sorts
<1>6. /\ Len(c) \in Nat /\ Len(c) # 0 /\ Len(t) \in Nat
      /\ \A i \in 1..Len(c) : i \in 1..Len(s) /\ s[i] = c[i]
  BY <1>1
<1>7. 1 \in 1..Len(c)
  BY <1>6
<1>8. r \in 1..Len(rs)
  BY <1>5, <1>6, <1>7, Front
<1>9. \A i \in 1..Len(c) : i <= rs[r].size => c[i] = [req |-> r, pos |-> i]
  BY <1>5, <1>6, Front
<1>10. rs[r] \in Request
  BY <1>5, <1>8, RequestSize
<1> QED BY <1>2, <1>4, <1>8, <1>9, <1>10

\* A request that is being read is one that was asked.
LEMMA RxKnown ==
  ASSUME ConnectionInv, ~astray, state = "rx"
  PROVE  Dealt + 1 \in 1..Len(asked)
<1>1. buf \in Seq(Word) /\ in \in Seq(Word) /\ Len(buf) >= 1
  BY Sorts DEF ConnectionInv, ThreadType, Named
<1>2. buf # <<>>
  BY <1>1
<1>3. Stream(buf \o in, asked, Start(Dealt + 1), ToWrite)
  BY DEF ConnectionInv, InOrder, Pending
<1> QED BY <1>1, <1>2, <1>3, BufferFront

\* What is left of the answer.
LEMMA UnsentType ==
  ASSUME ConnectionInv
  PROVE  Unsent \in Seq(Word)
<1>1. CASE state = "tx"
  <2>1. reply.req \in Nat /\ tx \in Nat /\ reply.size \in Nat /\ tx <= reply.size
    BY Sorts DEF ConnectionInv, ThreadType
  <2> PICK no, a, b : no = reply.req /\ a = tx /\ b = reply.size
    OBVIOUS
  <2>2. Words(no, a, b) \in Seq(Word)
    BY <2>1, WordsSeq
  <2> QED BY <2>2, <1>1 DEF Unsent
<1>2. CASE state # "tx"
  BY <1>2 DEF Unsent
<1> QED BY <1>1, <1>2
-----------------------------------------------------------------------------
(* The client's steps.                                                         *)

\* The inductive invariant at the start.
LEMMA ConnectionStarting == ConnectionInit => ConnectionInv
<1> SUFFICES ASSUME ConnectionInit PROVE ConnectionInv
  OBVIOUS
<1>1. /\ asked = <<>> /\ Len(asked) = 0 /\ in = <<>> /\ buf = <<>> /\ out = <<>>
      /\ due = <<>> /\ handled = <<>> /\ Len(handled) = 0 /\ state = "idle" /\ open = FALSE
      /\ written = 0 /\ first = 0 /\ size = 0 /\ skipped = 0 /\ tx = 0 /\ astray = FALSE
      /\ reply = [req |-> 0, size |-> 0]
  BY DEF ConnectionInit
<1>2. Header \in Nat /\ Header >= 1 /\ Capacity \in Nat /\ Fifo \in Nat /\ MaxRequests \in Nat
  BY ConnectionAssumption
<1>3. \A rs : Named(<<>>, rs)
  BY DEF Named
<1>4. ClientType
  <2>1. asked \in Seq(Request) /\ Whole
    BY <1>1 DEF Whole
  <2>2. Len(asked) <= MaxRequests /\ first \in 0..Len(asked) /\ written \in Nat
    BY <1>1, <1>2
  <2> QED BY <1>1, <2>1, <2>2 DEF ClientType
<1>5. FifoType
  BY <1>1, <1>2, <1>3 DEF FifoType
<1>6. ThreadType
  BY <1>1, <1>2, <1>3 DEF ThreadType
<1>7. InOrder
  <2>1. Pending = <<>> /\ Unsent = <<>>
    BY <1>1 DEF Pending, Unsent
  <2>2. Start(Dealt + 1) = ToWrite
    BY <1>1 DEF ToWrite, Whole, Start, Dealt
  <2>3. Stream(<<>>, asked, Start(Dealt + 1), ToWrite)
    BY <1>3, <2>2 DEF Stream, Chained, Between
  <2> QED BY <1>1, <2>1, <2>3 DEF InOrder
<1> QED BY <1>4, <1>5, <1>6, <1>7 DEF ConnectionInv

\* A new request changes nothing of what was written before it.
LEMMA AskKeeps ==
  ASSUME ConnectionInv, NEW m \in Request, Ask(m)
  PROVE  ConnectionInv'
<1>1. /\ Whole /\ Len(asked) < MaxRequests /\ open
      /\ asked' = Append(asked, m) /\ written' = 0
      /\ UNCHANGED <<open, first, in, out, handled, due, astray>>
      /\ UNCHANGED <<state, buf, size, skipped, reply, tx>>
  BY DEF Ask, con
<1>2. /\ asked \in Seq(Request) /\ Named(in, asked) /\ Named(buf, asked) /\ MaxRequests \in Nat
      /\ first \in 0..Len(asked)
  BY ConnectionAssumption DEF ConnectionInv, ClientType, FifoType, ThreadType
<1> DEFINE more == Append(asked, m)
<1>3. /\ more \in Seq(Request) /\ Len(more) = Len(asked) + 1 /\ Len(asked) \in Nat
      /\ \A i \in 1..Len(asked) : more[i] = asked[i]
      /\ more[Len(asked) + 1] = m
  BY <1>2, Appended
<1>4. Named(in, more) /\ Named(buf, more)
  BY <1>2, NamedStill
<1>5. m.size \in Nat /\ m.size >= 1
  BY ConnectionAssumption
<1> HIDE DEF more
<1>6. asked' = more
  BY <1>1 DEF more
<1>7. ClientType'
  BY <1>1, <1>2, <1>3, <1>5, <1>6 DEF ConnectionInv, ClientType
<1>8. FifoType'
  BY <1>1, <1>4, <1>6 DEF ConnectionInv, FifoType
<1>9. ThreadType'
  BY <1>1, <1>4, <1>6 DEF ConnectionInv, ThreadType
<1>10. ASSUME ~astray PROVE InOrder'
  <2>1. Stream(Pending, asked, Start(Dealt + 1), ToWrite) /\ out \o Unsent = due
    BY <1>10 DEF ConnectionInv, InOrder
  <2>2. ToWrite' = ToWrite
    <3>1. ToWrite = [req |-> Len(asked) + 1, pos |-> 1]
      BY <1>1 DEF ToWrite, Start
    <3>2. ~Whole'
      <4>1. Len(more) # 0 /\ more[Len(more)].size # 0
        BY <1>3, <1>5
      <4> QED BY <4>1, <1>1, <1>6 DEF Whole
    <3> QED BY <3>1, <3>2, <1>1, <1>3, <1>6 DEF ToWrite
  <2>3. Stream(Pending, more, Start(Dealt + 1), ToWrite)
    BY <2>1, <1>2, StreamStill DEF more
  <2>4. Pending' = Pending /\ Dealt' = Dealt /\ Unsent' = Unsent
    BY <1>1 DEF Pending, Dealt, Unsent
  <2>5. state = "rx" => size = more[Dealt + 1].size
    <3> SUFFICES ASSUME state = "rx" PROVE size = more[Dealt + 1].size
      OBVIOUS
    <3>1. size = asked[Dealt + 1].size
      BY <1>10 DEF ConnectionInv, InOrder
    <3>2. Dealt + 1 \in 1..Len(asked)
      BY RxKnown, <1>10
    <3> QED BY <3>1, <3>2, <1>3
  <2>6. Stream(Pending, asked, Start(Dealt + 1), ToWrite)'
    BY <2>2, <2>3, <2>4, <1>6
  <2> QED BY <2>1, <2>4, <2>5, <2>6, <1>1, <1>6, <1>10 DEF ConnectionInv, InOrder
<1>11. InOrder'
  BY <1>1, <1>10 DEF InOrder
<1> QED BY <1>7, <1>8, <1>9, <1>11 DEF ConnectionInv

\* What the client writes goes behind the rest.
LEMMA WriteKeeps ==
  ASSUME ConnectionInv, NEW k \in 1..Fifo, Write(k)
  PROVE  ConnectionInv'
<1>1. /\ open /\ ~Whole /\ Len(in) + k <= Fifo
      /\ k <= asked[Len(asked)].size - written
      /\ in' = in \o Words(Len(asked), written, written + k)
      /\ written' = written + k
      /\ UNCHANGED <<open, asked, first, out, handled, due, astray>>
      /\ UNCHANGED <<state, buf, size, skipped, reply, tx>>
  BY DEF Write, con
<1> PICK rs : rs = asked
  OBVIOUS
<1> PICK a : a = written
  OBVIOUS
<1> DEFINE b == a + k
           no == Len(rs)
<1>2. /\ rs \in Seq(Request) /\ a \in Nat /\ k \in Nat /\ k >= 1 /\ rs # <<>>
      /\ no \in Nat /\ no \in 1..Len(rs) /\ Named(in, rs) /\ Named(buf, rs)
  <2>1. rs \in Seq(Request) /\ a \in Nat /\ Named(in, rs) /\ Named(buf, rs)
    BY DEF ConnectionInv, ClientType, FifoType, ThreadType
  <2>2. rs # <<>> /\ k \in Nat /\ k >= 1
    BY <1>1, ConnectionAssumption DEF Whole
  <2> QED BY <2>1, <2>2
<1>3. b \in Nat /\ a < b /\ a <= b /\ b - a = k
  BY <1>2
<1>4. rs[no].size \in Nat /\ b <= rs[no].size
  <2>1. rs[no].size \in Nat
    BY <1>2, RequestSize
  <2> QED BY <1>1, <1>2, <2>1
<1> DEFINE w == Words(no, a, b)
<1>5. w \in Seq(Word) /\ Len(w) = k
  <2> HIDE DEF b, no
  <2> QED BY <1>2, <1>3, WordsSeq
<1>6. Named(w, rs)
  <2>1. ASSUME NEW i \in 1..b - a PROVE w[i] = [req |-> no, pos |-> a + i]
    <3> HIDE DEF b, no
    <3>1. i \in Nat /\ 1 <= i /\ i <= b - a
      BY <1>2, <1>3
    <3> QED BY <3>1, <1>2, <1>3, WordsAt
  <2>2. ASSUME NEW i \in 1..Len(w)
        PROVE  w[i].req \in 1..Len(rs) /\ w[i].pos \in 1..rs[w[i].req].size
    <3>1. i \in 1..b - a /\ a + i \in 1..rs[no].size
      BY <1>2, <1>3, <1>4, <1>5
    <3>2. w[i] = [req |-> no, pos |-> a + i]
      BY <2>1, <3>1
    <3> QED BY <1>2, <3>1, <3>2
  <2> QED BY <1>5, <2>2 DEF Named
<1>7. in' = in \o w /\ written' = b /\ asked' = rs
  BY <1>1
<1> HIDE DEF w, b, no
<1>8. Named(in', rs) /\ Len(in') <= Fifo
  <2>1. Named(in', rs)
    BY <1>2, <1>6, <1>7, NamedJoin
  <2>2. Len(in') = Len(in) + k
    BY <1>2, <1>5, <1>7, ConcatProperties DEF Named
  <2> QED BY <2>1, <2>2, <1>1
<1>9. Whole' <=> b = rs[no].size
  BY <1>2, <1>7 DEF Whole, no
<1>10. ClientType'
  BY <1>1, <1>3, <1>4, <1>7 DEF ConnectionInv, ClientType, no
<1>11. FifoType'
  BY <1>1, <1>7, <1>8 DEF ConnectionInv, FifoType
<1>12. ThreadType'
  BY <1>1 DEF ConnectionInv, ThreadType
<1>13. ASSUME ~astray PROVE InOrder'
  <2>1. /\ Stream(Pending, rs, Start(Dealt + 1), ToWrite) /\ out \o Unsent = due
        /\ state = "rx" => size = rs[Dealt + 1].size
        /\ \A i \in 1..Len(handled) : handled[i].req = first + i
    BY <1>13 DEF ConnectionInv, InOrder
  <2>2. ToWrite = [req |-> no, pos |-> a + 1]
    BY <1>1 DEF ToWrite, no
  <2>3. ToWrite' = IF b = rs[no].size THEN Start(no + 1) ELSE [req |-> no, pos |-> b + 1]
    BY <1>7, <1>9 DEF ToWrite, no
  <2>4. Dealt' = Dealt /\ Unsent' = Unsent
    BY <1>1 DEF Dealt, Unsent
  <2> PICK s : s = Pending
    OBVIOUS
  <2> PICK from : from = Start(Dealt + 1)
    OBVIOUS
  <2>5. Stream(s \o w, rs, from, ToWrite')
    <3>1. Stream(s, rs, from, [req |-> no, pos |-> a + 1])
      BY <2>1, <2>2
    <3> QED BY <3>1, <2>3, <1>2, <1>3, <1>4, Grown DEF w, no
  <2>6. Pending' = s \o w
    <3>1. CASE state \in {"idle", "rx"}
      <4>1. (buf \o in) \o w = buf \o (in \o w)
        <5>1. Joined(buf, in, w)
          BY <1>2, <1>5, JoinAssociates DEF Named
        <5> QED BY <5>1 DEF Joined
      <4> QED BY <3>1, <4>1, <1>1, <1>7 DEF Pending
    <3>2. CASE state \notin {"idle", "rx"}
      BY <3>2, <1>1, <1>7 DEF Pending
    <3> QED BY <3>1, <3>2
  <2>7. Stream(Pending, asked, Start(Dealt + 1), ToWrite)'
    BY <2>4, <2>5, <2>6, <1>7
  <2> QED BY <2>1, <2>4, <2>7, <1>1, <1>7 DEF InOrder
<1>14. InOrder'
  BY <1>1, <1>13 DEF InOrder
<1> QED BY <1>10, <1>11, <1>12, <1>14 DEF ConnectionInv

\* What the client reads is what is due first.
LEMMA ReadKeeps ==
  ASSUME ConnectionInv, NEW k \in 1..Fifo, Read(k)
  PROVE  ConnectionInv'
<1>1. /\ k <= Len(out) /\ out' = Drop(out, k)
      /\ due' = IF astray THEN due ELSE Drop(due, k)
      /\ UNCHANGED <<open, asked, written, first, in, handled, astray>>
      /\ UNCHANGED <<state, buf, size, skipped, reply, tx>>
  BY DEF Read, con, client
<1>2. out \in Seq(Word) /\ due \in Seq(Word) /\ Len(out) \in Nat /\ Len(out) <= Fifo
  BY DEF ConnectionInv, FifoType
<1>3. k \in Nat /\ k \in 0..Len(out)
  BY <1>1, <1>2, ConnectionAssumption
<1>4. out' \in Seq(Word) /\ Len(out') <= Fifo
  <2>1. out' \in Seq(Word) /\ Len(out') = Len(out) - k
    BY <1>1, <1>2, <1>3, Dropped
  <2>2. Fifo \in Nat
    BY ConnectionAssumption
  <2>3. \A l \in Nat : l <= Fifo => l - k <= Fifo
    BY <2>2, <1>3
  <2> QED BY <2>1, <2>3, <1>2
<1>5. Unsent \in Seq(Word)
  BY UnsentType
<1>6. ~astray => out \o Unsent = due
  BY DEF ConnectionInv, InOrder
<1>7. ~astray => Drop(due, k) = Drop(out, k) \o Unsent /\ k \in 0..Len(due)
  <2> SUFFICES ASSUME ~astray PROVE Drop(due, k) = Drop(out, k) \o Unsent /\ k \in 0..Len(due)
    OBVIOUS
  <2>1. Drop(out \o Unsent, k) = Drop(out, k) \o Unsent
    BY <1>2, <1>3, <1>5, DroppedInFront
  <2>2. Len(out \o Unsent) = Len(out) + Len(Unsent) /\ Len(Unsent) \in Nat
    BY <1>2, <1>5
  <2>3. out \o Unsent = due
    BY <1>6
  <2>4. Drop(due, k) = Drop(out, k) \o Unsent /\ Len(due) = Len(out) + Len(Unsent)
    BY <2>1, <2>2, <2>3
  <2>5. k \in 0..Len(due)
    <3>1. \A l, u \in Nat : k \in 0..l => k \in 0..l + u
      OBVIOUS
    <3> QED BY <3>1, <2>2, <2>4, <1>2, <1>3
  <2> QED BY <2>4, <2>5
<1>8. due' \in Seq(Word)
  <2>1. CASE astray
    BY <2>1, <1>1, <1>2
  <2>2. CASE ~astray
    BY <2>2, <1>1, <1>2, <1>7, Dropped
  <2> QED BY <2>1, <2>2
<1>9. Pending' = Pending /\ Dealt' = Dealt /\ ToWrite' = ToWrite /\ Unsent' = Unsent /\ Whole' = Whole
  BY <1>1 DEF Pending, Dealt, ToWrite, Unsent, Whole
<1>10. ClientType' /\ ThreadType'
  BY <1>1, <1>9 DEF ConnectionInv, ClientType, ThreadType
<1>11. FifoType'
  BY <1>1, <1>4, <1>8 DEF ConnectionInv, FifoType
<1>12. InOrder'
  <2> SUFFICES ASSUME ~astray PROVE InOrder'
    BY <1>1 DEF InOrder
  <2>1. /\ Stream(Pending, asked, Start(Dealt + 1), ToWrite)
        /\ state = "rx" => size = asked[Dealt + 1].size
        /\ \A i \in 1..Len(handled) : handled[i].req = first + i
    BY DEF ConnectionInv, InOrder
  <2>2. Stream(Pending, asked, Start(Dealt + 1), ToWrite)'
    BY <2>1, <1>1, <1>9
  <2>3. out' \o Unsent' = due'
    BY <1>1, <1>7, <1>9
  <2> QED BY <2>1, <2>2, <2>3, <1>1, <1>9 DEF InOrder
<1> QED BY <1>10, <1>11, <1>12 DEF ConnectionInv

\* A close finds the thread at rest, or leads it astray.
LEMMA ReleaseKeeps ==
  ASSUME ConnectionInv, FopsRelease
  PROVE  ConnectionInv'
<1>1. /\ open' = FALSE /\ in' = <<>> /\ out' = <<>> /\ handled' = <<>> /\ due' = <<>>
      /\ written' = IF asked = <<>> THEN 0 ELSE asked[Len(asked)].size
      /\ first' = Len(asked) /\ astray' = ~AtRest
      /\ UNCHANGED <<asked, state, buf, size, skipped, reply, tx>>
  BY DEF FopsRelease, con
<1>2. /\ asked \in Seq(Request) /\ Len(asked) \in Nat /\ Fifo \in Nat
  BY Sorts
<1>3. written' \in Nat /\ (asked # <<>> => written' = asked[Len(asked)].size) /\ Whole'
  <2>1. CASE asked = <<>>
    BY <2>1, <1>1 DEF Whole
  <2>2. CASE asked # <<>>
    <3>1. Len(asked) \in 1..Len(asked)
      BY <2>2, <1>2
    <3>2. asked[Len(asked)].size \in Nat
      <4>1. PICK rs, i : rs = asked /\ i = Len(asked)
        OBVIOUS
      <4>2. rs[i].size \in Nat
        BY <1>2, <3>1, <4>1, RequestSize
      <4> QED BY <4>1, <4>2
    <3> QED BY <2>2, <3>2, <1>1 DEF Whole
  <2> QED BY <2>1, <2>2
<1>4. \A rs : Named(<<>>, rs)
  BY DEF Named
<1>5. ClientType'
  <2>1. astray' \in BOOLEAN /\ open' \in BOOLEAN
    BY <1>1 DEF AtRest
  <2>2. first' \in 0..Len(asked')
    BY <1>1, <1>2
  <2>3. asked # <<>> => written' <= asked[Len(asked)].size
    BY <1>3
  <2> QED BY <2>1, <2>2, <2>3, <1>1, <1>3 DEF ConnectionInv, ClientType
<1>6. FifoType'
  <2>1. Len(in') <= Fifo /\ Len(out') <= Fifo
    BY <1>1, <1>2
  <2>2. out' \in Seq(Word) /\ due' \in Seq(Word) /\ handled' \in Seq([req : Nat, size : Nat])
    BY <1>1
  <2> QED BY <2>1, <2>2, <1>1, <1>4 DEF FifoType
<1>7. ThreadType'
  <2>1. state = "skip" => ~AtRest
    BY DEF AtRest
  <2> QED BY <2>1, <1>1 DEF ConnectionInv, ThreadType
<1>8. InOrder'
  <2> SUFFICES ASSUME AtRest PROVE InOrder'
    BY <1>1 DEF InOrder
  <2>1. state' = "idle" /\ buf' = <<>>
    BY <1>1 DEF AtRest
  <2>2. Pending' = <<>> /\ Unsent' = <<>>
    BY <2>1, <1>1 DEF Pending, Unsent
  <2>3. ToWrite' = Start(Len(asked) + 1)
    BY <1>1, <1>3 DEF ToWrite
  <2>4. Dealt' = Len(asked)
    <3>1. Dealt' = Len(asked) + Len(<<>>)
      BY <1>1 DEF Dealt
    <3> QED BY <3>1, <1>2
  <2>5. \A rs, w : Stream(<<>>, rs, w, w)
    BY <1>4 DEF Stream, Chained, Between
  <2>6. Stream(Pending, asked, Start(Dealt + 1), ToWrite)'
    BY <2>2, <2>3, <2>4, <2>5, <1>1
  <2>7. out' \o Unsent' = due'
    BY <2>2, <1>1
  <2>8. \A i \in 1..Len(handled') : handled'[i].req = first' + i
    BY <1>1
  <2> QED BY <2>1, <2>6, <2>7, <2>8 DEF InOrder
<1> QED BY <1>5, <1>6, <1>7, <1>8 DEF ConnectionInv

\* Opening the device changes nothing that has been written.
LEMMA OpenKeeps ==
  ASSUME ConnectionInv, FopsOpen
  PROVE  ConnectionInv'
<1>1. /\ open' = TRUE
      /\ UNCHANGED <<asked, written, first, in, out, handled, due, astray>>
      /\ UNCHANGED <<state, buf, size, skipped, reply, tx>>
  BY DEF FopsOpen, con
<1>2. ClientType' /\ FifoType' /\ ThreadType'
  BY <1>1 DEF ConnectionInv, ClientType, FifoType, ThreadType
<1>3. Pending' = Pending /\ Dealt' = Dealt /\ ToWrite' = ToWrite /\ Unsent' = Unsent
  BY <1>1 DEF Pending, Dealt, ToWrite, Unsent, Whole
<1>4. InOrder'
  <2> SUFFICES ASSUME ~astray PROVE InOrder'
    BY <1>1 DEF InOrder
  <2>1. Stream(Pending, asked, Start(Dealt + 1), ToWrite)'
    BY <1>1, <1>3 DEF ConnectionInv, InOrder
  <2> QED BY <2>1, <1>1, <1>3 DEF ConnectionInv, InOrder
<1> QED BY <1>2, <1>4 DEF ConnectionInv
-----------------------------------------------------------------------------
(* The thread's steps.                                                         *)

\* Reading from the fifo into the buffer loses nothing.
LEMMA TakeMoves ==
  ASSUME ConnectionInv, NEW n \in 0..Len(in), Take(n)
  PROVE  /\ Named(buf', asked) /\ Named(in', asked) /\ buf' \o in' = buf \o in
         /\ Len(buf') = Len(buf) + n /\ Len(in') = Len(in) - n /\ Len(in') <= Fifo
         /\ buf' \in Seq(Word) /\ in' \in Seq(Word)
<1>1. PICK rs, b, s, c, t : rs = asked /\ b = buf /\ s = in /\ c = buf' /\ t = in'
  OBVIOUS
<1>2. rs \in Seq(Request) /\ Named(b, rs) /\ Named(s, rs)
  BY <1>1, Sorts
<1>3. n \in 0..Len(s) /\ c = b \o SubSeq(s, 1, n) /\ t = Drop(s, n)
  BY <1>1 DEF Take
<1>4. /\ Named(c, rs) /\ Named(t, rs) /\ c \o t = b \o s
      /\ Len(c) = Len(b) + n /\ Len(t) = Len(s) - n
      /\ Len(s) \in Nat /\ n \in Nat /\ c \in Seq(Word) /\ t \in Seq(Word)
  <2> DEFINE u == b \o SubSeq(s, 1, n)
             v == Drop(s, n)
  <2>1. /\ Named(u, rs) /\ Named(v, rs) /\ u \o v = b \o s
        /\ Len(u) = Len(b) + n /\ Len(v) = Len(s) - n
        /\ Len(s) \in Nat /\ n \in Nat /\ u \in Seq(Word) /\ v \in Seq(Word)
    <3>1. \A k \in 0..Len(s) :
             LET cc == b \o SubSeq(s, 1, k)
                 tt == Drop(s, k)
             IN  /\ Named(cc, rs) /\ Named(tt, rs) /\ cc \o tt = b \o s
                 /\ Len(cc) = Len(b) + k /\ Len(tt) = Len(s) - k
                 /\ Len(b) \in Nat /\ Len(s) \in Nat /\ k \in Nat
                 /\ b \in Seq(Word) /\ s \in Seq(Word) /\ cc \in Seq(Word) /\ tt \in Seq(Word)
      BY <1>2, Moved, Zenon
    <3> QED BY <3>1, <1>3
  <2>2. c = u /\ t = v
    BY <1>3
  <2> HIDE DEF u, v
  <2> QED BY <2>1, <2>2
<1>5. Len(s) <= Fifo /\ Fifo \in Nat
  BY <1>1, Sorts DEF ConnectionInv, FifoType
<1>6. Len(t) <= Fifo
  <2>1. \A l \in Nat : l <= Fifo => l - n <= Fifo
    BY <1>4, <1>5
  <2> QED BY <2>1, <1>4, <1>5
<1> QED BY <1>1, <1>4, <1>6

\* What a header is taken for is a request, and if the words are those of one
\* it is that one.
LEMMA MeaningIs ==
  ASSUME ConnectionInv, Named(buf', asked), Header <= Len(buf')
  PROVE  /\ Meaning \subseteq Request
         /\ Id \in Nat
         /\ \A r \in 1..Len(asked) : (\A i \in 1..Header : buf'[i] = [req |-> r, pos |-> i]) =>
               Meaning = {asked[r]} /\ Id = r
<1>1. PICK rs, c : rs = asked /\ c = buf'
  OBVIOUS
<1>2. rs \in Seq(Request) /\ Header \in Nat /\ Header >= 1 /\ Len(c) \in Nat
  BY <1>1, Sorts DEF Named
<1>3. 1 \in 1..Len(c) /\ Header \in 1..Len(c) /\ 1 \in 1..Header /\ Header \in 1..Header
  BY <1>1, <1>2
<1>4. c[1].req \in 1..Len(rs) /\ c[Header].req \in 1..Len(rs)
  BY <1>1, <1>3 DEF Named
<1>5. rs[c[1].req] \in Request
  BY <1>2, <1>4
<1>6. Meaning \subseteq Request
  BY <1>1, <1>5 DEF Meaning
<1>7. Id \in Nat
  BY <1>1, <1>4 DEF Id
<1>8. ASSUME NEW r \in 1..Len(asked), \A i \in 1..Header : buf'[i] = [req |-> r, pos |-> i]
      PROVE  Meaning = {asked[r]} /\ Id = r
  <2>1. \A i \in 1..Header : c[i] = [req |-> r, pos |-> i]
    BY <1>1, <1>8
  <2>2. c[1] = [req |-> r, pos |-> 1] /\ c[Header] = [req |-> r, pos |-> Header]
    BY <2>1, <1>3
  <2>3. c[1].req = r /\ c[Header].req = r
    BY <2>2
  <2>4. ASSUME NEW i \in 1..Header PROVE c[i].pos = i /\ c[i].req = c[1].req
    <3>1. c[i] = [req |-> r, pos |-> i]
      BY <2>1
    <3> QED BY <3>1, <2>3
  <2>5. Aligned
    BY <2>4, <1>1 DEF Aligned
  <2> QED BY <2>3, <2>5, <1>1 DEF Meaning, Id
<1> QED BY <1>6, <1>7, <1>8

\* A header read, or a part of it.
LEMMA GetHeaderKeeps ==
  ASSUME ConnectionInv, GetHeader
  PROVE  ConnectionInv'
<1> PICK n : n = Smaller(Len(in), Header - Len(buf))
  OBVIOUS
<1>1. /\ state = "idle" /\ Take(n)
      /\ Len(buf') < Header => UNCHANGED <<state, size, skipped, astray>>
      /\ ~(Len(buf') < Header) =>
            /\ size' \in {m.size : m \in Meaning}
            /\ state' = IF size' > Capacity THEN "skip" ELSE "rx"
            /\ skipped' = 0
            /\ astray' = (astray \/ size' > Capacity)
      /\ UNCHANGED <<open, asked, written, first, out, reply, tx, handled, due>>
  BY DEF GetHeader, client
<1>2. /\ Header \in Nat /\ Header >= 1 /\ Capacity \in Nat /\ Header <= Capacity
      /\ Len(in) \in Nat /\ Len(buf) \in Nat /\ Len(buf) < Header
  <2>1. Header <= Capacity
    BY ConnectionAssumption
  <2> QED BY <2>1, <1>1, Sorts DEF ConnectionInv, ThreadType
<1>3. n \in 0..Len(in) /\ n <= Header - Len(buf) /\ n \in Nat
  BY <1>2, SmallerOf
<1>4. /\ Named(buf', asked) /\ Named(in', asked) /\ buf' \o in' = buf \o in
      /\ Len(buf') = Len(buf) + n /\ Len(in') <= Fifo
      /\ buf' \in Seq(Word) /\ in' \in Seq(Word)
  BY <1>1, <1>3, TakeMoves
<1>5. Len(buf') \in Nat /\ Len(buf') <= Header /\ Len(buf') <= Capacity
  BY <1>2, <1>3, <1>4
<1>6. ASSUME ~(Len(buf') < Header)
      PROVE  Len(buf') = Header /\ size' \in Nat /\ size' >= Header /\ astray' \in BOOLEAN
  <2>1. Len(buf') = Header
    BY <1>2, <1>5, <1>6
  <2>2. Meaning \subseteq Request
    BY <2>1, <1>2, <1>4, MeaningIs
  <2>3. PICK m \in Request : size' = m.size
    BY <2>2, <1>1, <1>6
  <2>4. m.size \in Nat /\ m.size >= Header
    BY ConnectionAssumption
  <2>5. astray' \in BOOLEAN
    BY <1>1, <1>6
  <2> QED BY <2>1, <2>3, <2>4, <2>5
<1>7. astray' \in BOOLEAN
  BY <1>1, <1>6 DEF ConnectionInv, ClientType
<1>8. ClientType' /\ FifoType'
  BY <1>1, <1>4, <1>7 DEF ConnectionInv, ClientType, FifoType, Whole
<1>9. ThreadType'
  <2>1. CASE Len(buf') < Header
    BY <2>1, <1>1, <1>4, <1>5 DEF ConnectionInv, ThreadType
  <2>2. CASE ~(Len(buf') < Header) /\ size' > Capacity
    <3>1. state' = "skip" /\ skipped' = 0 /\ astray' = TRUE
      BY <2>2, <1>1
    <3>2. 0 < size' /\ Header <= Len(buf')
      BY <2>2, <1>2, <1>6
    <3> QED BY <3>1, <3>2, <2>2, <1>1, <1>4, <1>5, <1>6 DEF ConnectionInv, ThreadType
  <2>3. CASE ~(Len(buf') < Header) /\ ~(size' > Capacity)
    <3>1. state' = "rx" /\ skipped' = 0
      BY <2>3, <1>1
    <3>2. Header <= Len(buf') /\ Len(buf') <= size' /\ size' <= Capacity
      BY <2>3, <1>2, <1>6
    <3> QED BY <3>1, <3>2, <2>3, <1>1, <1>4, <1>5, <1>6 DEF ConnectionInv, ThreadType
  <2> QED BY <2>1, <2>2, <2>3
<1>10. ASSUME ~astray' PROVE InOrder'
  <2>1. ~astray /\ state' \in {"idle", "rx"}
    <3>1. CASE Len(buf') < Header
      <4>1. state' = state /\ astray' = astray
        BY <3>1, <1>1
      <4> QED BY <4>1, <1>1, <1>10
    <3>2. CASE ~(Len(buf') < Header)
      <4>1. astray' = (astray \/ size' > Capacity) /\ state' = IF size' > Capacity THEN "skip" ELSE "rx"
        BY <3>2, <1>1
      <4>2. ~astray /\ ~(size' > Capacity)
        BY <4>1, <1>10
      <4> QED BY <4>1, <4>2
    <3> QED BY <3>1, <3>2
  <2>2. /\ Stream(Pending, asked, Start(Dealt + 1), ToWrite) /\ out \o Unsent = due
        /\ \A i \in 1..Len(handled) : handled[i].req = first + i
    BY <2>1 DEF ConnectionInv, InOrder
  <2>3. Pending' = Pending
    BY <2>1, <1>1, <1>4 DEF Pending
  <2>4. Dealt' = Dealt /\ ToWrite' = ToWrite /\ Unsent' = Unsent
    BY <2>1, <1>1 DEF Dealt, ToWrite, Whole, Unsent
  <2>5. Stream(Pending, asked, Start(Dealt + 1), ToWrite)'
    BY <2>2, <2>3, <2>4, <1>1
  <2>6. state' = "rx" => size' = asked[Dealt + 1].size
    <3> SUFFICES ASSUME state' = "rx" PROVE size' = asked[Dealt + 1].size
      OBVIOUS
    <3>1. ~(Len(buf') < Header)
      BY <1>1
    <3>2. Len(buf') = Header /\ Header <= Len(buf') /\ buf' # <<>>
      BY <3>1, <1>2, <1>4, <1>6
    <3>3. Stream(buf' \o in', asked, Start(Dealt + 1), ToWrite)
      BY <2>2, <1>1, <1>4 DEF Pending
    <3> PICK r : r = Dealt + 1
      OBVIOUS
    <3>4. /\ r \in 1..Len(asked) /\ asked[r] \in Request
          /\ \A i \in 1..Len(buf') : i <= asked[r].size => buf'[i] = [req |-> r, pos |-> i]
      BY <2>1, <3>2, <3>3, <1>4, BufferFront
    <3>5. asked[r].size \in Nat /\ asked[r].size >= Header
      BY <3>4, ConnectionAssumption
    <3>6. \A i \in 1..Header : buf'[i] = [req |-> r, pos |-> i]
      BY <3>2, <3>4, <3>5, <1>2
    <3>7. Meaning = {asked[r]}
      BY <3>2, <3>4, <3>6, <1>4, MeaningIs
    <3> QED BY <3>1, <3>7, <1>1
  <2> QED BY <2>2, <2>4, <2>5, <2>6, <1>1 DEF InOrder
<1>11. InOrder'
  BY <1>10 DEF InOrder
<1> QED BY <1>8, <1>9, <1>11 DEF ConnectionInv

\* The types of an answer.
LEMMA ReplyTypes ==
  ASSUME ConnectionInv, Named(buf', asked), Header <= Len(buf'),
         NEW length \in Nat, length <= Capacity, Reply(length)
  PROVE  /\ state' = "tx" /\ reply' = [req |-> Id, size |-> length] /\ tx' = 0
         /\ reply' \in [req : Nat, size : 0..Capacity] /\ tx' \in 0..reply'.size
         /\ handled' \in Seq([req : Nat, size : Nat]) /\ due' \in Seq(Word)
<1>1. /\ state' = "tx" /\ reply' = [req |-> Id, size |-> length] /\ tx' = 0
      /\ handled' = IF astray THEN handled ELSE Append(handled, reply')
      /\ due' = IF astray THEN due ELSE due \o Words(Id, 0, length)
  BY DEF Reply
<1>2. Id \in Nat
  BY MeaningIs
<1>3. /\ Capacity \in Nat /\ handled \in Seq([req : Nat, size : Nat]) /\ due \in Seq(Word)
  BY Sorts DEF ConnectionInv, FifoType
<1> PICK no : no = Id
  OBVIOUS
<1>4. Words(no, 0, length) \in Seq(Word)
  <2>1. 0 <= length /\ 0 \in Nat /\ no \in Nat
    BY <1>2
  <2> QED BY <2>1, WordsSeq
<1>5. length \in 0..Capacity /\ 0 \in 0..length
  BY <1>3
<1>6. reply' \in [req : Nat, size : 0..Capacity] /\ reply' \in [req : Nat, size : Nat]
  BY <1>1, <1>2, <1>5
<1>7. tx' \in 0..reply'.size
  BY <1>1, <1>5
<1>8. handled' \in Seq([req : Nat, size : Nat])
  <2>1. \A S : \A q \in Seq(S), e \in S : Append(q, e) \in Seq(S)
    OBVIOUS
  <2> QED BY <2>1, <1>1, <1>3, <1>6
<1>9. due' \in Seq(Word)
  <2>1. \A q, w \in Seq(Word) : q \o w \in Seq(Word)
    OBVIOUS
  <2> QED BY <2>1, <1>1, <1>3, <1>4
<1> QED BY <1>1, <1>6, <1>7, <1>8, <1>9

\* Data that is skipped is data of a packet that has led the thread astray.
LEMMA SkipKeeps ==
  ASSUME ConnectionInv, Skip
  PROVE  ConnectionInv'
<1> PICK k : k = Smaller(Len(in), Smaller(Capacity - Header, size - skipped))
  OBVIOUS
<1>1. /\ state = "skip" /\ in' = Drop(in, k) /\ skipped' = skipped + k /\ buf' = buf
      /\ skipped' < size => UNCHANGED <<state, reply, tx, handled, due>>
      /\ ~(skipped' < size) => Reply(Header)
      /\ UNCHANGED <<open, asked, written, first, out, size, astray>>
  BY DEF Skip, client
<1>2. /\ Header \in Nat /\ Capacity \in Nat /\ Capacity - Header \in Nat /\ Header <= Capacity
      /\ Len(in) \in Nat /\ size - skipped \in Nat /\ skipped \in Nat
      /\ astray /\ Header <= Len(buf) /\ Len(in) <= Fifo /\ Fifo \in Nat
      /\ Named(buf, asked) /\ Named(in, asked) /\ asked \in Seq(Request)
  <2>1. Header <= Capacity /\ Capacity - Header \in Nat
    BY ConnectionAssumption
  <2>2. /\ size \in Nat /\ skipped \in Nat /\ skipped < size /\ astray /\ Header <= Len(buf)
        /\ Len(in) <= Fifo
    BY <1>1 DEF ConnectionInv, ThreadType, FifoType
  <2> QED BY <2>1, <2>2, Sorts
<1>3. k \in 0..Len(in) /\ k \in Nat
  <2>1. Smaller(Capacity - Header, size - skipped) \in Nat
    BY <1>2, SmallerOf
  <2>2. Smaller(Len(in), Smaller(Capacity - Header, size - skipped)) \in 0..Len(in)
    BY <1>2, <2>1, SmallerOf
  <2> QED BY <1>2, <2>2
<1>4. Named(in', asked) /\ Len(in') <= Fifo
  <2>1. PICK rs, s, t : rs = asked /\ s = in /\ t = in'
    OBVIOUS
  <2>2. Named(t, rs)
    BY <2>1, <1>1, <1>2, <1>3, NamedParts
  <2>3. Len(t) = Len(s) - k
    <3>1. s \in Seq(Word) /\ k \in 0..Len(s) /\ t = Drop(s, k)
      BY <2>1, <1>1, <1>2, <1>3 DEF Named
    <3> QED BY <3>1, Dropped
  <2>4. \A l \in Nat : l <= Fifo => l - k <= Fifo
    BY <1>2, <1>3
  <2> QED BY <2>1, <2>2, <2>3, <2>4, <1>2
<1>5. ClientType'
  BY <1>1 DEF ConnectionInv, ClientType, Whole
<1>6. InOrder'
  BY <1>1, <1>2 DEF InOrder
<1>7. skipped' \in Nat
  BY <1>1, <1>2, <1>3
<1>8. FifoType' /\ ThreadType'
  <2>1. CASE skipped' < size
    BY <2>1, <1>1, <1>4, <1>7 DEF ConnectionInv, FifoType, ThreadType
  <2>2. CASE ~(skipped' < size)
    <3>1. Named(buf', asked) /\ Header <= Len(buf') /\ Reply(Header)
      BY <2>2, <1>1, <1>2
    <3>2. /\ state' = "tx"
          /\ reply' \in [req : Nat, size : 0..Capacity] /\ tx' \in 0..reply'.size
          /\ handled' \in Seq([req : Nat, size : Nat]) /\ due' \in Seq(Word)
      BY <3>1, <1>2, ReplyTypes
    <3> QED BY <3>2, <1>1, <1>4, <1>7 DEF ConnectionInv, FifoType, ThreadType
  <2> QED BY <2>1, <2>2
<1> QED BY <1>5, <1>6, <1>8 DEF ConnectionInv

\* A packet read, or a part of it: the answer is the one to the next request.
LEMMA GetDataKeeps ==
  ASSUME ConnectionInv, GetData
  PROVE  ConnectionInv'
<1> PICK n : n = Smaller(Len(in), size - Len(buf))
  OBVIOUS
<1>1. /\ state = "rx" /\ Take(n)
      /\ Len(buf') < size => UNCHANGED <<state, reply, tx, handled, due>>
      /\ ~(Len(buf') < size) => \E m \in Meaning, length \in 0..2 * Capacity :
            m.size = size /\ length \in Answer(m) /\ Reply(length)
      /\ UNCHANGED <<open, asked, written, first, out, size, skipped, astray>>
  BY DEF GetData, client
<1>2. /\ Header \in Nat /\ Header >= 1 /\ Capacity \in Nat /\ size \in Nat
      /\ Len(in) \in Nat /\ Len(buf) \in Nat /\ size - Len(buf) \in Nat
      /\ Header <= Len(buf) /\ Len(buf) <= size /\ size <= Capacity
  BY <1>1, Sorts DEF ConnectionInv, ThreadType
<1>3. n \in 0..Len(in) /\ n <= size - Len(buf) /\ n \in Nat
  BY <1>2, SmallerOf
<1>4. /\ Named(buf', asked) /\ Named(in', asked) /\ buf' \o in' = buf \o in
      /\ Len(buf') = Len(buf) + n /\ Len(in') <= Fifo
      /\ buf' \in Seq(Word) /\ in' \in Seq(Word)
  BY <1>1, <1>3, TakeMoves
<1>5. Len(buf') \in Nat /\ Header <= Len(buf') /\ Len(buf') <= size /\ Len(buf') <= Capacity
  BY <1>2, <1>3, <1>4
<1>6. ClientType'
  BY <1>1 DEF ConnectionInv, ClientType, Whole
<1>7. ToWrite' = ToWrite
  BY <1>1 DEF ToWrite, Whole
<1>8. CASE Len(buf') < size
  <2>1. UNCHANGED <<state, reply, tx, handled, due>>
    BY <1>1, <1>8
  <2>2. FifoType'
    BY <2>1, <1>1, <1>4 DEF ConnectionInv, FifoType
  <2>3. ThreadType'
    BY <2>1, <1>1, <1>4, <1>5 DEF ConnectionInv, ThreadType
  <2>4. ASSUME ~astray PROVE InOrder'
    <3>1. Pending' = Pending /\ Dealt' = Dealt /\ Unsent' = Unsent
      BY <2>1, <1>1, <1>4 DEF Pending, Dealt, Unsent
    <3>2. Stream(Pending, asked, Start(Dealt + 1), ToWrite)'
      BY <2>4, <3>1, <1>1, <1>7 DEF ConnectionInv, InOrder
    <3> QED BY <2>1, <2>4, <3>1, <3>2, <1>1 DEF ConnectionInv, InOrder
  <2>5. InOrder'
    BY <2>4, <1>1 DEF InOrder
  <2> QED BY <2>2, <2>3, <2>5, <1>6 DEF ConnectionInv
<1>9. CASE ~(Len(buf') < size)
  <2>1. Len(buf') = size /\ Len(buf') # 0
    BY <1>2, <1>5, <1>9
  <2>2. PICK m \in Meaning, length \in 0..2 * Capacity :
          m.size = size /\ length \in Answer(m) /\ Reply(length)
    BY <1>1, <1>9
  <2>3. m \in Request /\ length \in Nat /\ m.size <= Capacity
    BY <2>2, <1>2, <1>4, <1>5, MeaningIs
  <2>4. length <= Capacity
    BY <2>2, <2>3, AnswerFits
  <2>5. /\ state' = "tx" /\ reply' = [req |-> Id, size |-> length] /\ tx' = 0
        /\ reply' \in [req : Nat, size : 0..Capacity] /\ tx' \in 0..reply'.size
        /\ handled' \in Seq([req : Nat, size : Nat]) /\ due' \in Seq(Word)
    BY <2>2, <2>3, <2>4, <1>4, <1>5, ReplyTypes
  <2>6. FifoType'
    BY <2>5, <1>1, <1>4 DEF ConnectionInv, FifoType
  <2>7. ThreadType'
    BY <2>5, <1>1, <1>4, <1>5 DEF ConnectionInv, ThreadType
  <2>8. ASSUME ~astray PROVE InOrder'
    <3> PICK r : r = Dealt + 1
      OBVIOUS
    <3>1. /\ Stream(buf' \o in', asked, Start(r), ToWrite) /\ size = asked[r].size
          /\ out \o Unsent = due
          /\ \A i \in 1..Len(handled) : handled[i].req = first + i
      BY <2>8, <1>1, <1>4 DEF ConnectionInv, InOrder, Pending
    <3>2. /\ r \in 1..Len(asked) /\ r \in Nat
          /\ \A i \in 1..Len(buf') : i <= asked[r].size => buf'[i] = [req |-> r, pos |-> i]
      <4>1. buf' # <<>>
        BY <2>1
      <4>2. /\ r \in 1..Len(asked)
            /\ \A i \in 1..Len(buf') : i <= asked[r].size => buf'[i] = [req |-> r, pos |-> i]
        <5>1. Stream(buf' \o in', asked, Start(Dealt + 1), ToWrite)
          BY <3>1
        <5>2. /\ Dealt + 1 \in 1..Len(asked)
              /\ \A i \in 1..Len(buf') : i <= asked[Dealt + 1].size =>
                    buf'[i] = [req |-> Dealt + 1, pos |-> i]
          BY <4>1, <5>1, <2>8, <1>4, BufferFront
        <5> QED BY <5>2
      <4> QED BY <4>2, Sorts
    <3>3. Id = r
      <4>1. \A i \in 1..Header : buf'[i] = [req |-> r, pos |-> i]
        BY <2>1, <3>1, <3>2, <1>2
      <4> QED BY <4>1, <3>2, <1>4, <1>5, MeaningIs
    \* The words of the request leave the stream.
    <3>4. Stream(in', asked, Start(r + 1), ToWrite)
      <4>1. PICK rs, c, t, to : rs = asked /\ c = buf' /\ t = in' /\ to = ToWrite
        OBVIOUS
      <4>2. /\ rs \in Seq(Request) /\ c \in Seq(Word) /\ t \in Seq(Word) /\ r \in 1..Len(rs)
            /\ Stream(c \o t, rs, Start(r), to) /\ Len(c) = rs[r].size
        BY <2>1, <3>1, <3>2, <4>1, <1>4, Sorts
      <4> PICK l : l = Len(c)
        OBVIOUS
      <4>3. l <= Len(c \o t)
        <5>1. c \in Seq(Word) /\ t \in Seq(Word)
          BY <4>2
        <5>2. Len(c \o t) = Len(c) + Len(t) /\ Len(c) \in Nat /\ Len(t) \in Nat
          BY <5>1, ConcatProperties
        <5> QED BY <5>2
      <4>4. Stream(Drop(c \o t, l), rs, Start(r + 1), to)
        BY <4>2, <4>3, Eaten
      <4>5. Drop(c \o t, l) = t
        BY <4>2, DropFront
      <4> QED BY <4>1, <4>4, <4>5
    \* The answer is on its way.
    <3>5. handled' = Append(handled, reply') /\ due' = due \o Words(r, 0, length)
      BY <2>2, <2>8, <3>3 DEF Reply
    <3>6. reply' = [req |-> r, size |-> length]
      BY <2>5, <3>3
    <3>7. handled \in Seq([req : Nat, size : Nat]) /\ Len(handled) \in Nat /\ first \in Nat
          /\ r = first + Len(handled) + 1
      BY Sorts DEF Dealt
    <3>8. /\ Len(handled') = Len(handled) + 1
          /\ \A i \in 1..Len(handled) : handled'[i] = handled[i]
          /\ handled'[Len(handled) + 1] = reply'
      <4> PICK h, S : h = handled /\ S = [req : Nat, size : Nat]
        OBVIOUS
      <4>1. reply' \in S
        BY <2>5, <3>6, <2>3
      <4> QED BY <4>1, <3>5, <3>7
    <3>9. Dealt' + 1 = r + 1
      BY <3>7, <3>8, <1>1 DEF Dealt
    <3>10. Pending' = in'
      BY <2>5 DEF Pending
    <3>11. Stream(Pending, asked, Start(Dealt + 1), ToWrite)'
      BY <3>4, <3>9, <3>10, <1>1, <1>7
    <3>12. out' \o Unsent' = due'
      <4>1. Unsent = <<>> /\ Unsent' = Words(r, 0, length)
        BY <2>5, <3>6, <1>1 DEF Unsent
      <4>2. due = out
        <5>1. out \in Seq(Word)
          BY DEF ConnectionInv, FifoType
        <5> QED BY <5>1, <4>1, <3>1
      <4> QED BY <4>1, <4>2, <3>5, <1>1
    <3>13. \A i \in 1..Len(handled') : handled'[i].req = first' + i
      <4> SUFFICES ASSUME NEW i \in 1..Len(handled') PROVE handled'[i].req = first' + i
        OBVIOUS
      <4>1. CASE i = Len(handled) + 1
        BY <4>1, <3>6, <3>7, <3>8, <1>1
      <4>2. CASE i # Len(handled) + 1
        <5>1. i \in 1..Len(handled)
          BY <4>2, <3>7, <3>8
        <5> QED BY <5>1, <3>1, <3>8, <1>1
      <4> QED BY <4>1, <4>2
    <3> QED BY <2>5, <3>11, <3>12, <3>13 DEF InOrder
  <2>9. InOrder'
    BY <2>8, <1>1 DEF InOrder
  <2> QED BY <2>6, <2>7, <2>9, <1>6 DEF ConnectionInv
<1> QED BY <1>8, <1>9

\* What is sent of the answer moves to the client's fifo.
LEMMA SendKeeps ==
  ASSUME ConnectionInv, Send
  PROVE  ConnectionInv'
<1>21. PICK k : k = Smaller(reply.size - tx, Fifo - Len(out))
  OBVIOUS
<1>22. PICK no, a, c : no = reply.req /\ a = tx /\ c = reply.size
  OBVIOUS
<1>1. /\ state = "tx" /\ out' = out \o Words(no, a, a + k)
      /\ a + k < c => tx' = a + k /\ UNCHANGED <<state, buf>>
      /\ ~(a + k < c) => tx' = 0 /\ state' = "idle" /\ buf' = <<>>
      /\ UNCHANGED <<open, asked, written, first, in, size, skipped, reply, handled, due, astray>>
  BY <1>21, <1>22 DEF Send, client
<1>2. /\ no \in Nat /\ a \in Nat /\ c \in Nat /\ a <= c /\ c <= Capacity /\ Capacity \in Nat
      /\ out \in Seq(Word) /\ Len(out) \in Nat /\ Len(out) <= Fifo /\ Fifo \in Nat
      /\ Header \in Nat /\ Header >= 1 /\ in \in Seq(Word)
      /\ reply \in [req : Nat, size : 0..Capacity]
  <2>1. /\ reply \in [req : Nat, size : 0..Capacity] /\ tx \in 0..reply.size
        /\ out \in Seq(Word) /\ Len(out) <= Fifo /\ in \in Seq(Word)
    BY DEF ConnectionInv, ThreadType, FifoType, Named
  <2>2. Capacity \in Nat /\ Fifo \in Nat /\ Header \in Nat /\ Header >= 1
    BY Sorts
  <2> QED BY <2>1, <2>2, <1>22
<1>23. PICK b : b = a + k
  OBVIOUS
<1>3. b \in Nat /\ a <= b /\ b <= c /\ b - a = k /\ Len(out) + k <= Fifo
  <2>1. c - a \in Nat /\ Fifo - Len(out) \in Nat
    BY <1>2
  <2>2. k \in Nat /\ k <= c - a /\ k <= Fifo - Len(out)
    BY <2>1, <1>21, <1>22, SmallerOf
  <2> QED BY <2>2, <1>2, <1>23
<1>4. Words(no, a, b) \in Seq(Word) /\ Len(Words(no, a, b)) = k
  <2>1. Words(no, a, b) \in Seq(Word) /\ Len(Words(no, a, b)) = b - a
    BY <1>2, <1>3, WordsSeq
  <2> QED BY <2>1, <1>3
<1>5. out' \in Seq(Word) /\ Len(out') <= Fifo
  <2>21. PICK u, v : u = out /\ v = Words(no, a, b)
    OBVIOUS
  <2>1. u \o v \in Seq(Word) /\ Len(u \o v) = Len(u) + Len(v)
    BY <2>21, <1>2, <1>4
  <2> QED BY <2>1, <2>21, <1>1, <1>3, <1>4, <1>23
<1>6. ClientType' /\ FifoType'
  BY <1>1, <1>5 DEF ConnectionInv, ClientType, FifoType, Whole
<1>7. Named(<<>>, asked)
  BY DEF Named
<1>8. ThreadType'
  <2>1. CASE b < c
    BY <2>1, <1>1, <1>2, <1>3, <1>22, <1>23 DEF ConnectionInv, ThreadType
  <2>2. CASE ~(b < c)
    BY <2>2, <1>1, <1>2, <1>7, <1>22, <1>23 DEF ConnectionInv, ThreadType
  <2> QED BY <2>1, <2>2
<1>9. ASSUME ~astray PROVE InOrder'
  <2>1. /\ Stream(Pending, asked, Start(Dealt + 1), ToWrite) /\ out \o Unsent = due
        /\ \A i \in 1..Len(handled) : handled[i].req = first + i
    BY <1>9 DEF ConnectionInv, InOrder
  <2>2. Pending' = Pending
    <3>1. Pending = in
      BY <1>1 DEF Pending
    <3>2. CASE b < c
      BY <3>1, <3>2, <1>1, <1>22, <1>23 DEF Pending
    <3>3. CASE ~(b < c)
      <4>1. Pending' = <<>> \o in
        BY <3>3, <1>1, <1>22, <1>23 DEF Pending
      <4> QED BY <3>1, <4>1, <1>2
    <3> QED BY <3>2, <3>3
  <2>3. Dealt' = Dealt /\ ToWrite' = ToWrite
    BY <1>1 DEF Dealt, ToWrite, Whole
  <2>4. Stream(Pending, asked, Start(Dealt + 1), ToWrite)'
    BY <2>1, <2>2, <2>3, <1>1
  <2>5. out' \o Unsent' = due
    <3>1. Unsent = Words(no, a, c)
      BY <1>1, <1>22 DEF Unsent
    <3>2. CASE b < c
      <4>1. Unsent' = Words(no, b, c)
        BY <3>2, <1>1, <1>22, <1>23 DEF Unsent
      <4>0. no \in Nat /\ a \in Nat /\ b \in Nat /\ c \in Nat /\ a <= b /\ b <= c
        BY <1>2, <1>3
      <4>2. Words(no, a, c) = Words(no, a, b) \o Words(no, b, c)
        <5>1. Pieces(no, a, b, c)
          BY <4>0, WordsSplit
        <5> QED BY <5>1 DEF Pieces
      <4>3. Words(no, b, c) \in Seq(Word)
        BY <4>0, WordsSeq
      <4>4. (out \o Words(no, a, b)) \o Words(no, b, c) = out \o (Words(no, a, b) \o Words(no, b, c))
        <5>1. Joined(out, Words(no, a, b), Words(no, b, c))
          BY <4>3, <1>2, <1>4, JoinAssociates
        <5> QED BY <5>1 DEF Joined
      <4> QED BY <2>1, <3>1, <4>1, <4>2, <4>4, <1>1, <1>23
    <3>3. CASE ~(b < c)
      <4>1. b = c
        BY <3>3, <1>2, <1>3
      <4>2. Unsent' = <<>>
        BY <3>3, <1>1, <1>22, <1>23 DEF Unsent
      <4>3. out' = due
        BY <2>1, <3>1, <4>1, <1>1, <1>23
      <4> QED BY <4>2, <4>3, <1>5
    <3> QED BY <3>2, <3>3
  <2>6. state' # "rx"
    BY <1>1
  <2> QED BY <2>1, <2>3, <2>4, <2>5, <2>6, <1>1 DEF InOrder
<1>10. InOrder'
  BY <1>1, <1>9 DEF InOrder
<1> QED BY <1>6, <1>8, <1>10 DEF ConnectionInv
-----------------------------------------------------------------------------
(* The theorems.                                                               *)

\* Every step keeps the inductive invariant.
LEMMA ConnectionStepping ==
  ConnectionInv /\ [ConnectionNext]_connection => ConnectionInv'
<1> SUFFICES ASSUME ConnectionInv, [ConnectionNext]_connection PROVE ConnectionInv'
  OBVIOUS
<1>1. CASE FopsOpen
  BY <1>1, OpenKeeps
<1>2. ASSUME NEW m \in Request, Ask(m) PROVE ConnectionInv'
  BY <1>2, AskKeeps
<1>3. ASSUME NEW k \in 1..Fifo, Write(k) PROVE ConnectionInv'
  BY <1>3, WriteKeeps
<1>4. ASSUME NEW k \in 1..Fifo, Read(k) PROVE ConnectionInv'
  BY <1>4, ReadKeeps
<1>5. CASE FopsRelease
  BY <1>5, ReleaseKeeps
<1>6. CASE GetHeader
  BY <1>6, GetHeaderKeeps
<1>7. CASE Skip
  BY <1>7, SkipKeeps
<1>8. CASE GetData
  BY <1>8, GetDataKeeps
<1>9. CASE Send
  BY <1>9, SendKeeps
<1>10. CASE UNCHANGED connection
  <2>1. /\ UNCHANGED <<open, asked, written, first, in, out, handled, due, astray>>
        /\ UNCHANGED <<state, buf, size, skipped, reply, tx>>
    BY <1>10 DEF connection, client, con
  <2>2. ClientType' /\ FifoType' /\ ThreadType'
    BY <2>1 DEF ConnectionInv, ClientType, FifoType, ThreadType, Whole
  <2>3. Pending' = Pending /\ Dealt' = Dealt /\ ToWrite' = ToWrite /\ Unsent' = Unsent
    BY <2>1 DEF Pending, Dealt, ToWrite, Unsent, Whole
  <2>4. Stream(Pending, asked, Start(Dealt + 1), ToWrite)' <=>
        Stream(Pending, asked, Start(Dealt + 1), ToWrite)
    BY <2>1, <2>3
  <2>5. InOrder'
    BY <2>1, <2>3, <2>4 DEF ConnectionInv, InOrder
  <2> QED BY <2>2, <2>5 DEF ConnectionInv
<1> QED
  BY <1>1, <1>2, <1>3, <1>4, <1>5, <1>6, <1>7, <1>8, <1>9, <1>10
     DEF ConnectionNext, Client, Reading, Thread

\* The inductive invariant holds of every behaviour of the channel.
THEOREM ConnectionInvariant == ConnectionSpec => []ConnectionInv
BY ConnectionStarting, ConnectionStepping, PTL DEF ConnectionSpec

\* Neither a packet nor an answer is longer than con.buffer.
THEOREM BuffersAreBounded == ConnectionSpec => []BuffersBounded
<1>1. ConnectionInv => BuffersBounded
  <2> SUFFICES ASSUME ConnectionInv PROVE BuffersBounded
    OBVIOUS
  <2>1. reply.size <= Capacity
    BY Sorts DEF ConnectionInv, ThreadType
  <2> QED BY <2>1 DEF ConnectionInv, ClientType, FifoType, ThreadType, BuffersBounded
<1> QED BY <1>1, ConnectionInvariant, PTL

\* The requests of a session are answered once and in order.
THEOREM AnswersInOrder == ConnectionSpec => []AnsweredInOrder
<1>1. ConnectionInv => AnsweredInOrder
  <2> SUFFICES ASSUME ConnectionInv, ~astray PROVE
          /\ \A i \in DOMAIN handled : handled[i].req = first + i
          /\ state \in {"idle", "rx"} => buf = Words(first + Len(handled) + 1, 0, Len(buf))
          /\ out \o Unsent = due
    BY DEF AnsweredInOrder
  <2>1. /\ \A i \in 1..Len(handled) : handled[i].req = first + i
        /\ out \o Unsent = due
        /\ Stream(Pending, asked, Start(Dealt + 1), ToWrite)
        /\ state = "rx" => size = asked[Dealt + 1].size
    BY DEF ConnectionInv, InOrder
  <2>2. DOMAIN handled = 1..Len(handled)
    BY Sorts
  <2>3. ASSUME state \in {"idle", "rx"} PROVE buf = Words(Dealt + 1, 0, Len(buf))
    <3>1. /\ buf \in Seq(Word) /\ in \in Seq(Word) /\ Len(buf) \in Nat /\ Dealt \in Nat
          /\ Header \in Nat
      BY Sorts DEF Named
    <3> PICK b, r, l : b = buf /\ r = Dealt + 1 /\ l = Len(buf)
      OBVIOUS
    <3>2. ASSUME NEW i \in 1..l PROVE b[i] = [req |-> r, pos |-> i]
      <4>1. b # <<>> /\ b \in Seq(Word) /\ Len(b) = l
        BY <3>1, <3>2
      <4>2. Stream(b \o in, asked, Start(Dealt + 1), ToWrite)
        BY <2>1, <2>3 DEF Pending
      <4>3. /\ asked[r] \in Request
            /\ \A j \in 1..Len(b) : j <= asked[r].size => b[j] = [req |-> r, pos |-> j]
        BY <3>1, <4>1, <4>2, BufferFront
      <4>4. asked[r].size \in Nat /\ asked[r].size >= Header
        BY <4>3, ConnectionAssumption
      <4>5. l <= asked[r].size
        <5>1. CASE state = "idle"
          <6>1. l < Header
            BY <5>1 DEF ConnectionInv, ThreadType
          <6> QED BY <6>1, <4>4, <3>1
        <5>2. CASE state = "rx"
          BY <5>2, <2>1 DEF ConnectionInv, ThreadType
        <5> QED BY <5>1, <5>2, <2>3
      <4> QED BY <4>1, <4>3, <4>4, <4>5, <3>1
    <3>3. l \in Nat /\ r \in Nat /\ 0 <= l /\ 0 \in Nat /\ l - 0 = l
      BY <3>1
    <3>4. Words(r, 0, l) \in Seq(Word) /\ Len(Words(r, 0, l)) = l
      BY <3>3, WordsSeq
    <3>5. b = Words(r, 0, l)
      <4> PICK w : w = Words(r, 0, l)
        OBVIOUS
      <4>1. ASSUME NEW k \in 1..l PROVE w[k] = [req |-> r, pos |-> k]
        <5>1. k \in Nat /\ 1 <= k /\ k <= l - 0 /\ 0 < l /\ 0 + k = k /\ 0 \in Nat
          BY <3>3
        <5>2. w[k] = [req |-> r, pos |-> 0 + k]
          BY <3>3, <5>1, WordsAt
        <5> QED BY <5>1, <5>2
      <4>2. w \in Seq(Word) /\ Len(w) = l
        BY <3>4
      <4>3. ASSUME NEW k \in 1..l PROVE b[k] = w[k]
        <5>1. b[k] = [req |-> r, pos |-> k]
          BY <3>2
        <5> QED BY <4>1, <5>1
      <4>4. b \in Seq(Word) /\ Len(b) = Len(w)
        BY <3>1, <4>2
      <4>5. \A k \in 1..Len(b) : b[k] = w[k]
        BY <3>1, <4>3
      <4>6. b = w
        BY <4>2, <4>4, <4>5, SeqEqual
      <4> QED BY <4>6
    <3> QED BY <3>5
  <2>4. Dealt + 1 = first + Len(handled) + 1
    BY DEF Dealt
  <2> QED BY <2>1, <2>2, <2>3, <2>4
<1> QED BY <1>1, ConnectionInvariant, PTL
=============================================================================
