------------------------ MODULE L1dScoreboardProofs ------------------------
(***************************************************************************)
(* The scoreboard for every number of blocks, sets, MSHRs and requests.    *)
(*                                                                         *)
(* Its books (IInv), also where the golden model and the L1D part: no      *)
(* request is expected twice, and no completion is buffered that could be  *)
(* checked.  Then the agreement of golden model and L1D (AgreeInv) as long *)
(* as nothing has overlapped: the same caches, the same values, and so no  *)
(* false alarm, no request given up and nothing left in the final report.  *)
(***************************************************************************)
EXTENDS L1dScoreboard, MinMaxLemmas, SequenceTheorems, FiniteSetTheorems, TLAPS

-----------------------------------------------------------------------------
(* Lemmas about the operators.                                             *)

\* The way that hits, the MSHR that tracks and the first free one exist.
LEMMA Chosen ==
  /\ \A b \in Block : HitWays(b) # {} => Min(HitWays(b)) \in HitWays(b) /\ HitWays(b) \subseteq Way
  /\ \A b \in Block : Tracking(b) # {} => Min(Tracking(b)) \in Tracking(b)
  /\ FreeMshrs # {} => Min(FreeMshrs) \in FreeMshrs
<1>1. Way \subseteq Nat /\ Mshr \subseteq Nat
  BY GoldenAssumption DEF Way, Mshr
<1>2. ASSUME NEW b \in Block
      PROVE  HitWays(b) \in SUBSET Nat /\ Tracking(b) \in SUBSET Nat /\ HitWays(b) \subseteq Way
  BY <1>1 DEF HitWays, Tracking
<1>3. FreeMshrs \in SUBSET Nat
  BY <1>1 DEF FreeMshrs
<1>4. QED
  BY <1>2, <1>3, MinMember

LEMMA PlruWays ==
  /\ \A bits : plru_victim(bits) \in Way
  /\ \A bits \in SUBSET Way, w \in Way : plru_update(bits, w) \in SUBSET Way
<1>1. 0 \in Way /\ 1 \in Way /\ 2 \in Way
  BY DEF Way
<1>2. \A bits : plru_victim(bits) \in Way
  BY <1>1 DEF plru_victim
<1>3. \A bits \in SUBSET Way, w \in Way : plru_update(bits, w) \in SUBSET Way
  BY DEF plru_update
<1>4. QED
  BY <1>2, <1>3

\* A word after some stores holds a value.
LEMMA AfterStoresValue ==
  ASSUME NEW entries \in Seq(Request), NEW i \in Word, NEW old \in Value
  PROVE  AfterStores(entries, i, old) \in Value
<1>1. CASE StoresTo(entries, i) = {}
  BY <1>1 DEF AfterStores
<1>2. CASE StoresTo(entries, i) # {}
  <2>1. StoresTo(entries, i) \in SUBSET (0 .. Len(entries)) /\ Len(entries) \in Nat
    BY DEF StoresTo
  <2>2. Max(StoresTo(entries, i)) \in StoresTo(entries, i)
    BY <1>2, <2>1, MaxMember
  <2>3. Max(StoresTo(entries, i)) \in 1 .. Len(entries)
    BY <2>2 DEF StoresTo
  <2>4. entries[Max(StoresTo(entries, i))] \in Request
    BY <2>3
  <2>5. QED
    BY <1>2, <2>4 DEF AfterStores, Request
<1>3. QED
  BY <1>1, <1>2

LEMMA PlayedBackLine ==
  ASSUME NEW entries \in Seq(Request), NEW line \in Line
  PROVE  PlayedBack(entries, line) \in Line
  BY AfterStoresValue DEF PlayedBack, Line

\* A store reaches the flat map.
LEMMA StoreTypes ==
  ASSUME GoldenTypeOK, NEW r \in Request
  PROVE  StoreToLegacy(r) \in [Block -> Line]
<1>1. /\ legacy_mem \in [Block -> Line] /\ r.paddr.block \in Block
      /\ r.paddr.word \in Word /\ r.data \in Value
  BY DEF GoldenTypeOK, Request, Address
<1>2. [legacy_mem[r.paddr.block] EXCEPT ![r.paddr.word] = r.data] \in Line
  BY <1>1 DEF Line
<1>3. QED
  BY <1>1, <1>2 DEF StoreToLegacy

-----------------------------------------------------------------------------
(* The golden model keeps its types.                                       *)

\* Named, so that an update is seen as a whole.
TagEntry == [valid : BOOLEAN, dirty : BOOLEAN, tag : Block]
TagArray == [Way -> [Set -> TagEntry]]
MshrEntry == [entries : Seq(Request), victim_way : Way]
MshrTable == [Mshr -> MshrEntry]

LEMMA NamedTypes ==
  /\ TagArray = [Way -> [Set -> [valid : BOOLEAN, dirty : BOOLEAN, tag : Block]]]
  /\ MshrTable = [Mshr -> [entries : Seq(Request), victim_way : Way]]
  BY DEF TagArray, TagEntry, MshrTable, MshrEntry

\* A line's tag may change a field.
LEMMA TagFields ==
  ASSUME tag_array \in TagArray, NEW w \in Way, NEW s \in Set
  PROVE  /\ [tag_array EXCEPT ![w][s].dirty = TRUE] \in TagArray
         /\ [tag_array EXCEPT ![w][s].valid = FALSE] \in TagArray
<1>1. tag_array[w][s] \in TagEntry
  BY DEF TagArray
<1>2. /\ [tag_array[w][s] EXCEPT !.dirty = TRUE] \in TagEntry
      /\ [tag_array[w][s] EXCEPT !.valid = FALSE] \in TagEntry
  BY <1>1 DEF TagEntry
<1>3. ASSUME NEW e \in TagEntry
      PROVE  [tag_array EXCEPT ![w] = [tag_array[w] EXCEPT ![s] = e]] \in TagArray
  BY DEF TagArray
<1>4. /\ [tag_array EXCEPT ![w][s].dirty = TRUE]
           = [tag_array EXCEPT ![w] = [tag_array[w] EXCEPT ![s] = [tag_array[w][s] EXCEPT !.dirty = TRUE]]]
      /\ [tag_array EXCEPT ![w][s].valid = FALSE]
           = [tag_array EXCEPT ![w] = [tag_array[w] EXCEPT ![s] = [tag_array[w][s] EXCEPT !.valid = FALSE]]]
  OBVIOUS
<1>5. QED
  BY <1>2, <1>3, <1>4

\* What an MSHR holds, and that it may hold anything else.
LEMMA MshrTypes ==
  ASSUME GoldenTypeOK
  PROVE  /\ \A m \in Mshr : mshr[m].entries \in Seq(Request) /\ mshr[m].victim_way \in Way
         /\ \A m \in Mshr, q \in Seq(Request) : [mshr EXCEPT ![m].entries = q] \in MshrTable
         /\ \A m \in Mshr, r \in Request :
              [mshr EXCEPT ![m].entries = Append(@, r)] \in MshrTable
<1>1. mshr \in MshrTable
  BY NamedTypes DEF GoldenTypeOK
<1>2. \A m \in Mshr : mshr[m].entries \in Seq(Request) /\ mshr[m].victim_way \in Way
  BY <1>1 DEF MshrTable, MshrEntry
<1>3. ASSUME NEW m \in Mshr, NEW q \in Seq(Request)
      PROVE  [mshr EXCEPT ![m].entries = q] \in MshrTable
  <2>1. [mshr[m] EXCEPT !.entries = q] \in MshrEntry
    BY <1>1 DEF MshrTable, MshrEntry
  <2>2. QED
    BY <1>1, <2>1 DEF MshrTable
<1>4. ASSUME NEW m \in Mshr, NEW r \in Request
      PROVE  [mshr EXCEPT ![m].entries = Append(@, r)] \in MshrTable
  <2>1. Append(mshr[m].entries, r) \in Seq(Request)
    BY <1>2
  <2>2. [mshr EXCEPT ![m].entries = Append(@, r)]
          = [mshr EXCEPT ![m].entries = Append(mshr[m].entries, r)]
    OBVIOUS
  <2>3. QED
    BY <1>3, <2>1, <2>2
<1>5. QED
  BY <1>2, <1>3, <1>4

LEMMA HitTypes ==
  ASSUME GoldenTypeOK, NEW r \in Request, Hit(r)
  PROVE  GoldenTypeOK'
<1> DEFINE s == SetOf[r.paddr.block]
           w == Min(HitWays(r.paddr.block))
<1>1. /\ r.paddr.block \in Block /\ r.paddr.word \in Word /\ r.data \in Value
      /\ s \in Set
  BY GoldenAssumption DEF Request, Address
<1>2. w \in Way
  BY <1>1, Chosen DEF Hit
<1> HIDE DEF s, w
<1>3. plru_bits' \in [Set -> SUBSET Way]
  <2>1. plru_bits' = [plru_bits EXCEPT ![s] = plru_update(@, w)]
    BY DEF Hit, s, w
  <2>2. plru_bits \in [Set -> SUBSET Way] /\ plru_update(plru_bits[s], w) \in SUBSET Way
    BY <1>1, <1>2, PlruWays DEF GoldenTypeOK
  <2>3. QED
    BY <2>1, <2>2
<1>4. data_array' \in [Way -> [Set -> Line]]
  <2> DEFINE line == [data_array[w][s] EXCEPT ![r.paddr.word] = r.data]
  <2>1. data_array \in [Way -> [Set -> Line]] /\ line \in Line
    BY <1>1, <1>2 DEF GoldenTypeOK, Line
  <2>2. data_array' = [data_array EXCEPT ![w][s] = line] \/ data_array' = data_array
    BY DEF Hit, s, w
  <2> HIDE DEF line
  <2>3. QED
    BY <1>1, <1>2, <2>1, <2>2
<1>5. tag_array' \in TagArray
  <2>1. tag_array' = [tag_array EXCEPT ![w][s].dirty = TRUE] \/ tag_array' = tag_array
    BY DEF Hit, s, w
  <2>2. QED
    <3>1. tag_array \in TagArray
      BY NamedTypes DEF GoldenTypeOK
    <3>2. [tag_array EXCEPT ![w][s].dirty = TRUE] \in TagArray
      BY <1>1, <1>2, <3>1, TagFields
    <3>3. QED
      BY <2>1, <3>1, <3>2
<1>6. QED
  BY <1>3, <1>4, <1>5, StoreTypes, NamedTypes DEF Hit, GoldenTypeOK

LEMMA SecondaryTypes ==
  ASSUME GoldenTypeOK, NEW r \in Request, Secondary(r)
  PROVE  GoldenTypeOK'
<1> DEFINE m == Min(Tracking(r.paddr.block))
<1>1. m \in Mshr
  BY Chosen DEF Secondary, SecondaryMissOf, Tracking, Request, Address
<1>2. mshr' = [mshr EXCEPT ![m].entries = Append(@, r)] \/ mshr' = mshr
  BY DEF Secondary
<1> HIDE DEF m
<1>3. mshr' \in MshrTable
  <2>1. mshr \in MshrTable
    BY NamedTypes DEF GoldenTypeOK
  <2>2. QED
    BY <1>1, <1>2, <2>1, MshrTypes
<1>4. QED
  BY <1>3, StoreTypes, NamedTypes DEF Secondary, GoldenTypeOK

LEMMA PrimaryTypes ==
  ASSUME GoldenTypeOK, NEW r \in Request, Primary(r)
  PROVE  GoldenTypeOK'
<1> DEFINE s == SetOf[r.paddr.block]
           w == plru_victim(plru_bits[s])
           m == Min(FreeMshrs)
           stored == StoreToLegacy(r)
<1>1. s \in Set /\ w \in Way /\ m \in Mshr /\ stored \in [Block -> Line]
  BY GoldenAssumption, PlruWays, Chosen, StoreTypes DEF Primary, FreeMshrs, Request, Address
<1>2. /\ mshr' = [mshr EXCEPT ![m] = [entries |-> << r >>, victim_way |-> w]]
      /\ tag_array' = [tag_array EXCEPT ![w][s].valid = FALSE]
      /\ \/ legacy_mem' = [stored EXCEPT ![tag_array[w][s].tag] = data_array[w][s]]
         \/ legacy_mem' = stored
  BY DEF Primary
<1>3. UNCHANGED << data_array, plru_bits >>
  BY DEF Primary
<1> HIDE DEF s, w, m, stored
<1>4. mshr' \in MshrTable
  <2>1. [entries |-> << r >>, victim_way |-> w] \in [entries : Seq(Request), victim_way : Way]
    BY <1>1
  <2>2. QED
    BY <1>1, <1>2, <2>1, NamedTypes DEF GoldenTypeOK, MshrTable, MshrEntry
<1>5. tag_array' \in TagArray
  BY <1>1, <1>2, TagFields, NamedTypes DEF GoldenTypeOK
<1>6. legacy_mem' \in [Block -> Line]
  <2>1. data_array[w][s] \in Line
    BY <1>1 DEF GoldenTypeOK
  <2>2. QED
    BY <1>1, <1>2, <2>1
<1>7. QED
  BY <1>3, <1>4, <1>5, <1>6, NamedTypes DEF GoldenTypeOK

LEMMA RequestTypes ==
  ASSUME GoldenTypeOK, NEW r \in Request, l1d_model_request(r)
  PROVE  GoldenTypeOK'
<1>1. CASE Forward(r)
  BY <1>1 DEF Forward, goldenVars, GoldenTypeOK
<1>2. CASE NoFreeMshr(r)
  BY <1>2, StoreTypes DEF NoFreeMshr, GoldenTypeOK
<1>3. QED
  BY <1>1, <1>2, HitTypes, SecondaryTypes, PrimaryTypes DEF l1d_model_request

\* A line goes into a way of a block's set.
LEMMA InstalledTypes ==
  ASSUME GoldenTypeOK, NEW b \in Block, NEW w \in Way, NEW dirty \in BOOLEAN,
         NEW line \in Line
  PROVE  /\ Installed(b, w, dirty) \in TagArray
         /\ [data_array EXCEPT ![w][SetOf[b]] = line] \in [Way -> [Set -> Line]]
         /\ [plru_bits EXCEPT ![SetOf[b]] = plru_update(@, w)] \in [Set -> SUBSET Way]
<1> DEFINE entry == [valid |-> TRUE, dirty |-> dirty, tag |-> b]
<1>1. SetOf[b] \in Set /\ entry \in [valid : BOOLEAN, dirty : BOOLEAN, tag : Block]
  BY GoldenAssumption
<1>2. Installed(b, w, dirty) = [tag_array EXCEPT ![w][SetOf[b]] = entry]
  BY DEF Installed
<1> HIDE DEF entry
<1>3. plru_bits \in [Set -> SUBSET Way] /\ plru_update(plru_bits[SetOf[b]], w) \in SUBSET Way
  BY <1>1, PlruWays DEF GoldenTypeOK
<1>4. [plru_bits EXCEPT ![SetOf[b]] = plru_update(@, w)] \in [Set -> SUBSET Way]
  BY <1>3
<1>5. Installed(b, w, dirty) \in TagArray
  BY <1>1, <1>2, NamedTypes DEF GoldenTypeOK, TagArray, TagEntry, entry
<1>6. QED
  BY <1>1, <1>4, <1>5 DEF GoldenTypeOK

LEMMA FillTypes ==
  ASSUME GoldenTypeOK, NEW b \in Block, NEW line \in Line, l1d_model_fill(b, line)
  PROVE  GoldenTypeOK'
<1>1. CASE FillTracked(b, line)
  <2> DEFINE m == Min(Tracking(b))
             entries == mshr[m].entries
             w == mshr[m].victim_way
             dirty == \E k \in DOMAIN entries : entries[k].we
  <2>1. m \in Mshr
    BY <1>1, Chosen DEF FillTracked, Tracking
  <2>2. entries \in Seq(Request) /\ w \in Way /\ dirty \in BOOLEAN
    BY <2>1, MshrTypes
  <2>3. PlayedBack(entries, line) \in Line /\ PlayedBack(entries, legacy_mem[b]) \in Line
    BY <2>2, PlayedBackLine DEF GoldenTypeOK
  <2>4. /\ data_array' = [data_array EXCEPT ![w][SetOf[b]] = PlayedBack(entries, line)]
        /\ tag_array' = Installed(b, w, dirty)
        /\ plru_bits' = [plru_bits EXCEPT ![SetOf[b]] = plru_update(@, w)]
        /\ mshr' = [mshr EXCEPT ![m].entries = << >>]
        /\ legacy_mem' = [legacy_mem EXCEPT ![b] = PlayedBack(entries, @)]
    BY <1>1 DEF FillTracked
  <2> HIDE DEF m, entries, w, dirty
  <2>5. mshr' \in MshrTable
    <3>1. << >> \in Seq(Request)
      OBVIOUS
    <3>2. [mshr EXCEPT ![m].entries = << >>] \in MshrTable
      BY <2>1, <3>1, MshrTypes
    <3>3. QED
      BY <2>4, <3>2
  <2>6. legacy_mem' \in [Block -> Line]
    BY <2>3, <2>4 DEF GoldenTypeOK
  <2>7. /\ data_array' \in [Way -> [Set -> Line]]
        /\ tag_array' \in TagArray
        /\ plru_bits' \in [Set -> SUBSET Way]
    BY <2>2, <2>3, <2>4, InstalledTypes
  <2>8. QED
    BY <2>5, <2>6, <2>7, NamedTypes DEF GoldenTypeOK
<1>2. CASE FillUntracked(b, line)
  <2> DEFINE w == plru_victim(plru_bits[SetOf[b]])
  <2>1. w \in Way
    BY PlruWays
  <2>2. /\ data_array' = [data_array EXCEPT ![w][SetOf[b]] = line]
        /\ tag_array' = Installed(b, w, FALSE)
        /\ plru_bits' = [plru_bits EXCEPT ![SetOf[b]] = plru_update(@, w)]
        /\ UNCHANGED << mshr, legacy_mem >>
    BY <1>2 DEF FillUntracked
  <2> HIDE DEF w
  <2>3. QED
    BY <2>1, <2>2, InstalledTypes, NamedTypes DEF GoldenTypeOK
<1>3. QED
  BY <1>1, <1>2 DEF l1d_model_fill

-----------------------------------------------------------------------------
(* What the golden model pushes.                                           *)

\* A request pushes completions of its own tag.
LEMMA RequestPushesTypes ==
  ASSUME GoldenTypeOK, NEW r \in Request
  PROVE  /\ RequestPushes(r) \in Seq(Completion)
         /\ \A k \in DOMAIN RequestPushes(r) : RequestPushes(r)[k].tag = r.proc_tag
         /\ RequestPushes(r) = << >> \/ HitWays(r.paddr.block) # {} \/ Forwards(r)
<1>1. /\ r.paddr.block \in Block /\ r.paddr.word \in Word /\ r.we \in BOOLEAN
      /\ r.proc_tag \in Tag /\ 0 \in Value /\ SetOf[r.paddr.block] \in Set
  BY GoldenAssumption DEF Request, Address
<1>2. CASE HitWays(r.paddr.block) # {}
  <2> DEFINE w == Min(HitWays(r.paddr.block))
             data == IF r.we THEN 0 ELSE data_array[w][SetOf[r.paddr.block]][r.paddr.word]
  <2>1. w \in Way
    BY <1>1, <1>2, Chosen
  <2>2. data \in Value
    BY <1>1, <2>1 DEF GoldenTypeOK, Line
  <2>3. RequestPushes(r) = << [tag |-> r.proc_tag, data |-> data, is_write |-> r.we] >>
    BY <1>2 DEF RequestPushes, HitPushes
  <2> HIDE DEF data
  <2>4. QED
    BY <1>1, <1>2, <2>2, <2>3 DEF Completion
<1>3. CASE HitWays(r.paddr.block) = {} /\ Forwards(r)
  <2> DEFINE entries == mshr[Min(Tracking(r.paddr.block))].entries
             data == AfterStores(entries, r.paddr.word, 0)
  <2>1. Min(Tracking(r.paddr.block)) \in Mshr
    BY <1>1, <1>3, Chosen DEF Forwards, SecondaryMissOf, Tracking
  <2>2. data \in Value
    BY <1>1, <2>1, MshrTypes, AfterStoresValue
  <2>3. RequestPushes(r) = << [tag |-> r.proc_tag, is_write |-> FALSE, data |-> data] >>
    BY <1>3 DEF RequestPushes, ForwardPushes
  <2> HIDE DEF data
  <2>4. QED
    BY <1>1, <1>3, <2>2, <2>3 DEF Completion
<1>4. CASE HitWays(r.paddr.block) = {} /\ ~Forwards(r)
  BY <1>4 DEF RequestPushes
<1>5. QED
  BY <1>2, <1>3, <1>4

\* A fill pushes one completion for each request of the MSHR that tracks the block.
LEMMA FillPushesTypes ==
  ASSUME GoldenTypeOK, NEW b \in Block, NEW line \in Line
  PROVE  /\ FillPushes(b, line) \in Seq(Completion)
         /\ Tracking(b) = {} => FillPushes(b, line) = << >>
         /\ Tracking(b) # {} =>
              LET entries == mshr[Min(Tracking(b))].entries
              IN  \A k \in DOMAIN FillPushes(b, line) :
                      k \in DOMAIN entries /\ FillPushes(b, line)[k].tag = entries[k].proc_tag
<1>1. CASE Tracking(b) = {}
  BY <1>1 DEF FillPushes
<1>2. CASE Tracking(b) # {}
  <2> DEFINE entries == mshr[Min(Tracking(b))].entries
             data(k) == IF entries[k].we THEN 0
                        ELSE AfterStores(SubSeq(entries, 1, k), entries[k].paddr.word,
                                         line[entries[k].paddr.word])
  <2>1. Min(Tracking(b)) \in Mshr
    BY <1>2, Chosen DEF Tracking
  <2>2. entries \in Seq(Request) /\ DOMAIN entries = 1 .. Len(entries) /\ Len(entries) \in Nat
    BY <2>1, MshrTypes
  <2>3. FillPushes(b, line) = [k \in DOMAIN entries |->
           [tag |-> entries[k].proc_tag, is_write |-> entries[k].we, data |-> data(k)]]
    BY <1>2 DEF FillPushes
  <2> HIDE DEF entries
  <2>4. ASSUME NEW k \in DOMAIN entries
        PROVE  entries[k].proc_tag \in Tag /\ entries[k].we \in BOOLEAN /\ data(k) \in Value
    <3>1. entries[k] \in Request /\ k \in 1 .. Len(entries)
      BY <2>2
    <3>2. SubSeq(entries, 1, k) \in Seq(Request)
      BY <2>2, <3>1, SubSeqProperties
    <3>3. entries[k].paddr.word \in Word /\ line[entries[k].paddr.word] \in Value /\ 0 \in Value
      BY <3>1, GoldenAssumption DEF Request, Address, Line
    <3>4. data(k) \in Value
      BY <3>2, <3>3, AfterStoresValue
    <3>5. QED
      BY <3>1, <3>4 DEF Request
  <2> HIDE DEF data
  <2>5. FillPushes(b, line) \in [1 .. Len(entries) -> Completion]
    BY <2>2, <2>3, <2>4 DEF Completion
  <2>6. FillPushes(b, line) \in Seq(Completion)
    BY <2>2, <2>5, IsASeq
  <2>7. \A k \in DOMAIN FillPushes(b, line) :
          k \in DOMAIN entries /\ FillPushes(b, line)[k].tag = entries[k].proc_tag
    BY <2>3
  <2>8. QED
    BY <1>2, <2>6, <2>7 DEF entries
<1>3. QED
  BY <1>1, <1>2

-----------------------------------------------------------------------------
(* Sequences of completions.                                               *)

\* No completion of the sequence has a tag above n.
TagsUpTo(q, n) == \A k \in DOMAIN q : q[k].tag <= n

LEMMA SequenceTags ==
  ASSUME NEW q \in Seq(Completion), NEW n \in Nat, TagsUpTo(q, n)
  PROVE  /\ \A i \in Nat : n <= i => TagsUpTo(q, i)
         /\ \A c \in Completion : c.tag <= n => TagsUpTo(Append(q, c), n)
         /\ \A p \in Seq(Completion) : TagsUpTo(p, n) => TagsUpTo(p \o q, n)
         /\ q # << >> => Head(q) \in Completion /\ Head(q).tag <= n
         /\ q # << >> => Tail(q) \in Seq(Completion) /\ TagsUpTo(Tail(q), n)
<1>1. \A k \in DOMAIN q : q[k].tag \in Int
  <2>1. \A c \in Completion : c.tag \in Int
    BY ScoreboardAssumption DEF Completion
  <2>2. \A k \in DOMAIN q : q[k] \in Completion
    OBVIOUS
  <2>3. QED
    BY <2>1, <2>2
<1>2. \A i \in Nat : n <= i => TagsUpTo(q, i)
  BY <1>1 DEF TagsUpTo
<1>3. ASSUME NEW c \in Completion, c.tag <= n
      PROVE  TagsUpTo(Append(q, c), n)
  <2>1. /\ Append(q, c) \in Seq(Completion) /\ Len(Append(q, c)) = Len(q) + 1
        /\ \A k \in 1 .. Len(q) : Append(q, c)[k] = q[k]
        /\ Append(q, c)[Len(q) + 1] = c
    BY AppendProperties
  <2>2. ASSUME NEW k \in DOMAIN Append(q, c)
        PROVE  Append(q, c)[k].tag <= n
    <3>1. k \in 1 .. Len(q) \/ k = Len(q) + 1
      BY <2>1
    <3>2. QED
      BY <1>3, <2>1, <3>1 DEF TagsUpTo
  <2>3. QED
    BY <2>2 DEF TagsUpTo
<1>4. ASSUME NEW p \in Seq(Completion), TagsUpTo(p, n)
      PROVE  TagsUpTo(p \o q, n)
  <2>1. /\ p \o q \in Seq(Completion) /\ Len(p \o q) = Len(p) + Len(q)
        /\ \A k \in 1 .. Len(p) + Len(q) :
             (p \o q)[k] = IF k <= Len(p) THEN p[k] ELSE q[k - Len(p)]
    BY ConcatProperties
  <2>2. ASSUME NEW k \in DOMAIN (p \o q)
        PROVE  (p \o q)[k].tag <= n
    <3>1. k \in 1 .. Len(p) + Len(q)
      BY <2>1
    <3>2. CASE k <= Len(p)
      BY <1>4, <2>1, <3>1, <3>2 DEF TagsUpTo
    <3>3. CASE ~(k <= Len(p))
      <4>1. k - Len(p) \in DOMAIN q
        BY <3>1, <3>3
      <4>2. QED
        BY <2>1, <3>1, <3>3, <4>1 DEF TagsUpTo
    <3>4. QED
      BY <3>2, <3>3
  <2>3. QED
    BY <2>2 DEF TagsUpTo
<1>5. ASSUME q # << >>
      PROVE  /\ Head(q) \in Completion /\ Head(q).tag <= n
             /\ Tail(q) \in Seq(Completion) /\ TagsUpTo(Tail(q), n)
  <2>1. /\ Tail(q) \in Seq(Completion) /\ Len(Tail(q)) = Len(q) - 1
        /\ \A k \in 1 .. Len(Tail(q)) : Tail(q)[k] = q[k + 1]
    BY <1>5, HeadTailProperties
  <2>2. Head(q) = q[1] /\ 1 \in DOMAIN q
    BY <1>5
  <2>3. ASSUME NEW k \in DOMAIN Tail(q)
        PROVE  Tail(q)[k].tag <= n
    <3>1. k \in 1 .. Len(Tail(q)) /\ k + 1 \in DOMAIN q
      BY <2>1
    <3>2. QED
      BY <2>1, <3>1 DEF TagsUpTo
  <2>4. QED
    BY <2>1, <2>2, <2>3 DEF TagsUpTo
<1>6. QED
  BY <1>2, <1>3, <1>4, <1>5

\* What is filed is of the right type; it was there, or it has just been pushed.
LEMMA DrainedTypes ==
  ASSUME expected \in [Tag -> Completion \cup {None}], NEW pushed \in Seq(Completion)
  PROVE  /\ Drained(pushed) \in [Tag -> Completion \cup {None}]
         /\ \A t \in Tag : Drained(pushed)[t] # None =>
              expected[t] # None \/ \E k \in DOMAIN pushed : pushed[k].tag = t
<1> DEFINE K(t) == {k \in DOMAIN pushed : pushed[k].tag = t}
<1>1. Drained(pushed) = [t \in Tag |-> IF K(t) = {} THEN expected[t] ELSE pushed[Max(K(t))]]
  BY DEF Drained
<1>2. ASSUME NEW t \in Tag, K(t) # {}
      PROVE  pushed[Max(K(t))] \in Completion
  <2>1. K(t) \in SUBSET (0 .. Len(pushed)) /\ Len(pushed) \in Nat
    OBVIOUS
  <2> HIDE DEF K
  <2>2. Max(K(t)) \in K(t)
    BY <1>2, <2>1, MaxMember
  <2>3. QED
    BY <2>2 DEF K
<1>3. QED
  BY <1>1, <1>2

-----------------------------------------------------------------------------
(* The MSHRs of the golden model.                                          *)

\* A request leaves the MSHRs as they are, or is the last of the one that tracks its
\* block, or the first of an empty one; then it pushes nothing.
LEMMA RequestWaits ==
  ASSUME GoldenTypeOK, NEW r \in Request, l1d_model_request(r)
  PROVE  \/ mshr' = mshr
         \/ /\ RequestPushes(r) = << >>
            /\ \E m \in Mshr :
                 /\ \/ m \in Tracking(r.paddr.block)
                    \/ Tracking(r.paddr.block) = {} /\ mshr[m].entries = << >>
                 /\ mshr'[m].entries = Append(mshr[m].entries, r)
                 /\ \A n \in Mshr : n # m => mshr'[n].entries = mshr[n].entries
<1> DEFINE b == r.paddr.block
<1>1. b \in Block /\ mshr \in MshrTable
  BY NamedTypes DEF Request, Address, GoldenTypeOK
<1>2. CASE Hit(r) \/ Forward(r) \/ NoFreeMshr(r)
  BY <1>2 DEF Hit, Forward, NoFreeMshr, goldenVars
<1>3. CASE Secondary(r)
  <2> DEFINE m == Min(Tracking(b))
  <2>1. m \in Tracking(b) /\ m \in Mshr
    BY <1>1, <1>3, Chosen DEF Secondary, SecondaryMissOf, Tracking
  <2>2. mshr' = [mshr EXCEPT ![m].entries = Append(@, r)] \/ mshr' = mshr
    BY <1>3 DEF Secondary
  <2>3. RequestPushes(r) = << >>
    BY <1>3 DEF Secondary, SecondaryMissOf, RequestPushes
  <2> HIDE DEF m
  <2>4. CASE mshr' = [mshr EXCEPT ![m].entries = Append(@, r)]
    <3>1. /\ mshr'[m].entries = Append(mshr[m].entries, r)
          /\ \A n \in Mshr : n # m => mshr'[n].entries = mshr[n].entries
      BY <1>1, <2>1, <2>4 DEF MshrTable, MshrEntry
    <3>2. QED
      BY <2>1, <2>3, <3>1
  <2>5. QED
    BY <2>2, <2>4
<1>4. CASE Primary(r)
  <2> DEFINE m == Min(FreeMshrs)
             w == plru_victim(plru_bits[SetOf[b]])
  <2>1. m \in Mshr /\ mshr[m].entries = << >>
    BY <1>4, Chosen DEF Primary, FreeMshrs, Active
  <2>2. mshr' = [mshr EXCEPT ![m] = [entries |-> << r >>, victim_way |-> w]]
    BY <1>4 DEF Primary
  <2>3. RequestPushes(r) = << >> /\ Tracking(b) = {}
    BY <1>4 DEF Primary, PrimaryMissOf, RequestPushes, Forwards, SecondaryMissOf
  <2> HIDE DEF m, w
  <2>4. /\ mshr'[m].entries = << r >>
        /\ \A n \in Mshr : n # m => mshr'[n].entries = mshr[n].entries
    BY <1>1, <2>1, <2>2 DEF MshrTable
  <2>5. Append(<< >>, r) = << r >>
    OBVIOUS
  <2>6. mshr'[m].entries = Append(mshr[m].entries, r)
    BY <2>1, <2>4, <2>5
  <2>7. QED
    BY <2>1, <2>3, <2>4, <2>6
<1>5. QED
  BY <1>2, <1>3, <1>4 DEF l1d_model_request

\* So each entry is an old one, or the request behind all the old ones.
LEMMA EntriesAfterRequest ==
  ASSUME GoldenTypeOK, NEW r \in Request, NEW m \in Mshr,
         mshr'[m].entries = Append(mshr[m].entries, r),
         \A n \in Mshr : n # m => mshr'[n].entries = mshr[n].entries
  PROVE  \A n \in Mshr : \A k \in DOMAIN mshr'[n].entries :
            \/ k \in DOMAIN mshr[n].entries /\ mshr'[n].entries[k] = mshr[n].entries[k]
            \/ n = m /\ k = Len(mshr[m].entries) + 1 /\ mshr'[n].entries[k] = r
<1>1. ASSUME NEW k \in DOMAIN mshr'[m].entries
      PROVE  \/ k \in DOMAIN mshr[m].entries /\ mshr'[m].entries[k] = mshr[m].entries[k]
             \/ k = Len(mshr[m].entries) + 1 /\ mshr'[m].entries[k] = r
  <2> DEFINE q == mshr[m].entries
  <2>1. q \in Seq(Request) /\ Len(q) \in Nat /\ DOMAIN q = 1 .. Len(q)
    BY MshrTypes
  <2> HIDE DEF q
  <2>2. /\ Append(q, r) \in Seq(Request) /\ Len(Append(q, r)) = Len(q) + 1
        /\ \A i \in 1 .. Len(q) : Append(q, r)[i] = q[i]
        /\ Append(q, r)[Len(q) + 1] = r
    BY <2>1, AppendProperties
  <2>3. k \in 1 .. Len(q) + 1
    BY <2>1, <2>2 DEF q
  <2>4. CASE k \in 1 .. Len(q)
    BY <2>1, <2>2, <2>4 DEF q
  <2>5. CASE k = Len(q) + 1
    BY <2>2, <2>5 DEF q
  <2>6. QED
    BY <2>1, <2>3, <2>4, <2>5 DEF q
<1>2. QED
  BY <1>1

\* A fill empties the MSHR that tracks the block and no other.
LEMMA FillEmpties ==
  ASSUME GoldenTypeOK, NEW b \in Block, NEW line, l1d_model_fill(b, line)
  PROVE  \/ Tracking(b) = {} /\ mshr' = mshr
         \/ /\ Tracking(b) # {} /\ Min(Tracking(b)) \in Mshr
            /\ mshr'[Min(Tracking(b))].entries = << >>
            /\ \A n \in Mshr : n # Min(Tracking(b)) => mshr'[n].entries = mshr[n].entries
<1>1. CASE FillTracked(b, line)
  <2> DEFINE m == Min(Tracking(b))
  <2>1. m \in Mshr /\ mshr \in MshrTable /\ Tracking(b) # {}
    BY <1>1, Chosen, NamedTypes DEF FillTracked, Tracking, GoldenTypeOK
  <2>2. mshr' = [mshr EXCEPT ![m].entries = << >>]
    BY <1>1 DEF FillTracked
  <2> HIDE DEF m
  <2>3. /\ mshr'[m].entries = << >>
        /\ \A n \in Mshr : n # m => mshr'[n].entries = mshr[n].entries
    BY <2>1, <2>2 DEF MshrTable, MshrEntry
  <2>4. QED
    BY <2>1, <2>3 DEF m
<1>2. CASE FillUntracked(b, line)
  BY <1>2 DEF FillUntracked
<1>3. QED
  BY <1>1, <1>2 DEF l1d_model_fill

\* All requests in an MSHR are for one block, and no two MSHRs are for the same.
LEMMA RequestKeepsOneBlock ==
  ASSUME GoldenTypeOK, OneBlockPerMshr, NEW r \in Request, l1d_model_request(r)
  PROVE  OneBlockPerMshr'
<1>1. CASE mshr' = mshr
  BY <1>1 DEF OneBlockPerMshr
<1>2. ASSUME NEW m \in Mshr,
             \/ m \in Tracking(r.paddr.block)
             \/ Tracking(r.paddr.block) = {} /\ mshr[m].entries = << >>,
             mshr'[m].entries = Append(mshr[m].entries, r),
             \A n \in Mshr : n # m => mshr'[n].entries = mshr[n].entries
      PROVE  OneBlockPerMshr'
  \* An old entry is for the request's block exactly if it waits in that MSHR.
  <2>1. \A n \in Mshr : \A k \in DOMAIN mshr[n].entries :
           (n = m) <=> (mshr[n].entries[k].paddr.block = r.paddr.block)
    <3>1. \A n \in Mshr : mshr[n].entries # << >> => 1 \in DOMAIN mshr[n].entries
      BY MshrTypes
    <3>2. \A n \in Mshr : \A k \in DOMAIN mshr[n].entries : mshr[n].entries # << >>
      OBVIOUS
    <3>3. CASE m \in Tracking(r.paddr.block)
      BY <3>1, <3>2, <3>3 DEF Tracking, Active, OneBlockPerMshr
    <3>4. CASE Tracking(r.paddr.block) = {} /\ mshr[m].entries = << >>
      <4>1. ASSUME NEW n \in Mshr, NEW k \in DOMAIN mshr[n].entries
            PROVE  n # m /\ mshr[n].entries[k].paddr.block # r.paddr.block
        <5>1. n # m
          BY <3>2, <3>4, <4>1
        <5>2. mshr[n].entries[1].paddr.block # r.paddr.block
          BY <3>2, <3>4, <4>1 DEF Tracking, Active
        <5>3. mshr[n].entries[k].paddr.block = mshr[n].entries[1].paddr.block
          BY <3>1, <3>2, <4>1 DEF OneBlockPerMshr
        <5>4. QED
          BY <5>1, <5>2, <5>3
      <4>2. QED
        BY <4>1
    <3>5. QED
      BY <1>2, <3>3, <3>4
  <2>2. \A n \in Mshr : \A k \in DOMAIN mshr'[n].entries :
            \/ k \in DOMAIN mshr[n].entries /\ mshr'[n].entries[k] = mshr[n].entries[k]
            \/ n = m /\ mshr'[n].entries[k] = r
    BY <1>2, EntriesAfterRequest
  <2>3. ASSUME NEW n \in Mshr, NEW o \in Mshr, NEW j \in DOMAIN mshr'[n].entries,
               NEW k \in DOMAIN mshr'[o].entries
        PROVE  (n = o) <=> (mshr'[n].entries[j].paddr.block = mshr'[o].entries[k].paddr.block)
    <3>1. CASE /\ j \in DOMAIN mshr[n].entries /\ mshr'[n].entries[j] = mshr[n].entries[j]
               /\ k \in DOMAIN mshr[o].entries /\ mshr'[o].entries[k] = mshr[o].entries[k]
      BY <3>1 DEF OneBlockPerMshr
    <3>2. CASE /\ j \in DOMAIN mshr[n].entries /\ mshr'[n].entries[j] = mshr[n].entries[j]
               /\ o = m /\ mshr'[o].entries[k] = r
      BY <2>1, <3>2
    <3>3. CASE /\ n = m /\ mshr'[n].entries[j] = r
               /\ k \in DOMAIN mshr[o].entries /\ mshr'[o].entries[k] = mshr[o].entries[k]
      BY <2>1, <3>3
    <3>4. CASE n = m /\ mshr'[n].entries[j] = r /\ o = m /\ mshr'[o].entries[k] = r
      BY <3>4
    <3>5. QED
      BY <2>2, <2>3, <3>1, <3>2, <3>3, <3>4
  <2>4. QED
    BY <2>3 DEF OneBlockPerMshr
<1>3. QED
  BY <1>1, <1>2, RequestWaits

LEMMA FillKeepsOneBlock ==
  ASSUME GoldenTypeOK, OneBlockPerMshr, NEW b \in Block, NEW line, l1d_model_fill(b, line)
  PROVE  OneBlockPerMshr'
<1>1. CASE mshr' = mshr
  BY <1>1 DEF OneBlockPerMshr
<1>2. ASSUME NEW m \in Mshr, mshr'[m].entries = << >>,
             \A n \in Mshr : n # m => mshr'[n].entries = mshr[n].entries
      PROVE  OneBlockPerMshr'
  <2>1. \A n \in Mshr : \A k \in DOMAIN mshr'[n].entries :
            k \in DOMAIN mshr[n].entries /\ mshr'[n].entries = mshr[n].entries
    BY <1>2
  <2>2. QED
    BY <2>1 DEF OneBlockPerMshr
<1>3. QED
  BY <1>1, <1>2, FillEmpties

-----------------------------------------------------------------------------
(* The L1D.                                                                *)

DutTypeOK ==
    /\ memory \in [Block -> Line]
    /\ dut_array \in [Way -> [Set -> Block \cup {None}]]
    /\ dut_plru \in [Set -> SUBSET Way]
    /\ dut_mshr \in [Block -> Seq(Completion)]
    /\ dut_line \in [Block -> Line]
    /\ answers \in Seq(Completion)
    /\ fill_event \in [block : Block, line : Line] \cup {None}

\* Its answers are for requests up to the n-th.
DutTags(n) == TagsUpTo(answers, n) /\ \A b \in Block : TagsUpTo(dut_mshr[b], n)

LEMMA AnswerTypes ==
  ASSUME DutTypeOK, NEW r \in Request
  PROVE  Answer(r) \in Completion /\ Answer(r).tag = r.proc_tag
<1>1. memory[r.paddr.block][r.paddr.word] \in Value /\ 0 \in Value
  BY GoldenAssumption DEF DutTypeOK, Request, Address, Line
<1>2. r.proc_tag \in Tag /\ r.we \in BOOLEAN
  BY DEF Request
<1>3. QED
  BY <1>1, <1>2 DEF Answer, Completion

LEMMA DutTakesTypes ==
  ASSUME DutTypeOK, NEW r \in Request, DutTakes(r),
         NEW n \in Nat, DutTags(n), r.proc_tag <= n
  PROVE  DutTypeOK' /\ DutTags(n)'
<1> DEFINE b == r.paddr.block
           s == SetOf[b]
           w == Min(DutWays(b))
<1>1. b \in Block /\ s \in Set /\ r.paddr.word \in Word /\ r.data \in Value
  BY GoldenAssumption DEF Request, Address
<1>2. Answer(r) \in Completion /\ Answer(r).tag <= n
  BY AnswerTypes
<1>3. memory' \in [Block -> Line]
  <2>1. memory \in [Block -> Line]
    BY DEF DutTypeOK
  <2>2. [memory[b] EXCEPT ![r.paddr.word] = r.data] \in Line
    BY <1>1, <2>1 DEF Line
  <2>3. memory' = memory \/ memory' = [memory EXCEPT ![b] = [memory[b] EXCEPT ![r.paddr.word] = r.data]]
    BY DEF DutTakes
  <2>4. QED
    BY <1>1, <2>1, <2>2, <2>3
<1>4. /\ Append(answers, Answer(r)) \in Seq(Completion)
      /\ TagsUpTo(Append(answers, Answer(r)), n)
  BY <1>2, SequenceTags, AppendProperties DEF DutTypeOK, DutTags
<1>5. UNCHANGED << dut_array, fill_event >>
  BY DEF DutTakes
<1>6. CASE /\ answers' = Append(answers, Answer(r)) /\ UNCHANGED << dut_mshr, dut_line >>
           /\ \/ UNCHANGED dut_plru
              \/ DutWays(b) # {} /\ dut_plru' = [dut_plru EXCEPT ![s] = plru_update(@, w)]
  <2>1. dut_plru' \in [Set -> SUBSET Way]
    <3>1. CASE UNCHANGED dut_plru
      BY <3>1 DEF DutTypeOK
    <3>2. CASE DutWays(b) # {} /\ dut_plru' = [dut_plru EXCEPT ![s] = plru_update(@, w)]
      <4>1. DutWays(b) \in SUBSET Nat /\ DutWays(b) \subseteq Way
        BY DEF DutWays, Way
      <4>2. w \in Way
        BY <3>2, <4>1, MinMember
      <4> HIDE DEF s, w
      <4>3. dut_plru \in [Set -> SUBSET Way] /\ plru_update(dut_plru[s], w) \in SUBSET Way
        BY <1>1, <4>2, PlruWays DEF DutTypeOK
      <4>4. QED
        BY <3>2, <4>3
    <3>3. QED
      BY <1>6, <3>1, <3>2
  <2>2. QED
    BY <1>3, <1>4, <1>5, <1>6, <2>1 DEF DutTypeOK, DutTags
<1>7. ASSUME NEW q \in Seq(Completion), TagsUpTo(q, n),
             dut_mshr' = [dut_mshr EXCEPT ![b] = q], UNCHANGED << answers, dut_plru >>,
             dut_line' = dut_line \/ dut_line' = [dut_line EXCEPT ![b] = memory[b]]
      PROVE  DutTypeOK' /\ DutTags(n)'
  <2>1. dut_mshr' \in [Block -> Seq(Completion)]
    BY <1>1, <1>7 DEF DutTypeOK
  <2>2. \A a \in Block : TagsUpTo(dut_mshr'[a], n)
    BY <1>1, <1>7 DEF DutTypeOK, DutTags
  <2>3. dut_line' \in [Block -> Line]
    BY <1>1, <1>7 DEF DutTypeOK
  <2>4. QED
    BY <1>3, <1>5, <1>7, <2>1, <2>2, <2>3 DEF DutTypeOK, DutTags
<1>8. /\ Append(dut_mshr[b], Answer(r)) \in Seq(Completion)
      /\ TagsUpTo(Append(dut_mshr[b], Answer(r)), n)
  <2>1. dut_mshr[b] \in Seq(Completion) /\ TagsUpTo(dut_mshr[b], n)
    BY <1>1 DEF DutTypeOK, DutTags
  <2>2. QED
    BY <1>2, <2>1, SequenceTags, AppendProperties
<1>9. << Answer(r) >> \in Seq(Completion) /\ TagsUpTo(<< Answer(r) >>, n)
  BY <1>2 DEF TagsUpTo
<1>10. CASE dut_mshr' = [dut_mshr EXCEPT ![b] = Append(@, Answer(r))]
            /\ UNCHANGED << answers, dut_plru, dut_line >>
  BY <1>7, <1>8, <1>10
<1>11. CASE /\ dut_mshr' = [dut_mshr EXCEPT ![b] = << Answer(r) >>]
            /\ dut_line' = [dut_line EXCEPT ![b] = memory[b]]
            /\ UNCHANGED << answers, dut_plru >>
  BY <1>7, <1>9, <1>11
<1>12. QED
  BY <1>6, <1>10, <1>11 DEF DutTakes

LEMMA DutFillsTypes ==
  ASSUME DutTypeOK, DutFills, NEW n \in Nat, DutTags(n)
  PROVE  DutTypeOK' /\ DutTags(n)'
<1>1. PICK b \in Fetched :
         /\ fill_event' = [block |-> b, line |-> dut_line[b]]
         /\ dut_array' = [dut_array EXCEPT ![plru_victim(dut_plru[SetOf[b]])][SetOf[b]] = b]
         /\ dut_plru' = [dut_plru EXCEPT ![SetOf[b]]
                           = plru_update(@, plru_victim(dut_plru[SetOf[b]]))]
         /\ answers' = answers \o dut_mshr[b]
         /\ dut_mshr' = [dut_mshr EXCEPT ![b] = << >>]
         /\ UNCHANGED << memory, dut_line >>
  BY DEF DutFills
<1> DEFINE s == SetOf[b]
           w == plru_victim(dut_plru[s])
<1>2. b \in Block /\ s \in Set /\ w \in Way
  BY GoldenAssumption, PlruWays DEF Fetched
<1>3. dut_array' = [dut_array EXCEPT ![w][s] = b] /\ dut_plru' = [dut_plru EXCEPT ![s] = plru_update(@, w)]
  BY <1>1
<1> HIDE DEF s, w
<1>4. dut_array' \in [Way -> [Set -> Block \cup {None}]]
  BY <1>2, <1>3 DEF DutTypeOK
<1>5. dut_plru' \in [Set -> SUBSET Way]
  <2>1. dut_plru \in [Set -> SUBSET Way] /\ plru_update(dut_plru[s], w) \in SUBSET Way
    BY <1>2, PlruWays DEF DutTypeOK
  <2>2. QED
    BY <1>3, <2>1
<1>6. answers' \in Seq(Completion) /\ TagsUpTo(answers', n)
  <2>1. /\ answers \in Seq(Completion) /\ TagsUpTo(answers, n)
        /\ dut_mshr[b] \in Seq(Completion) /\ TagsUpTo(dut_mshr[b], n)
    BY <1>2 DEF DutTypeOK, DutTags
  <2>2. QED
    BY <1>1, <2>1, SequenceTags, ConcatProperties
<1>7. dut_mshr' \in [Block -> Seq(Completion)] /\ \A a \in Block : TagsUpTo(dut_mshr'[a], n)
  <2>1. << >> \in Seq(Completion) /\ TagsUpTo(<< >>, n)
    BY DEF TagsUpTo
  <2>2. QED
    BY <1>1, <1>2, <2>1 DEF DutTypeOK, DutTags
<1>8. fill_event' \in [block : Block, line : Line]
  BY <1>1, <1>2 DEF DutTypeOK
<1>9. QED
  BY <1>1, <1>4, <1>5, <1>6, <1>7, <1>8 DEF DutTypeOK, DutTags

LEMMA WriteCompTypes ==
  ASSUME DutTypeOK, write_comp, NEW n \in Nat, DutTags(n)
  PROVE  /\ DutTypeOK' /\ DutTags(n)'
         /\ Head(answers) \in Completion /\ Head(answers).tag <= n
<1>1. answers # << >> /\ answers \in Seq(Completion) /\ TagsUpTo(answers, n)
  BY DEF write_comp, DutTypeOK, DutTags
<1>2. /\ Head(answers) \in Completion /\ Head(answers).tag <= n
      /\ Tail(answers) \in Seq(Completion) /\ TagsUpTo(Tail(answers), n)
  BY <1>1, SequenceTags
<1>3. answers' = Tail(answers) /\ UNCHANGED << memory, dut_array, dut_plru, dut_mshr, dut_line, fill_event >>
  BY DEF write_comp
<1>4. QED
  BY <1>2, <1>3 DEF DutTypeOK, DutTags

-----------------------------------------------------------------------------
(* The books of the scoreboard.                                            *)

\* ExpectedOnce, entry by entry.
WaitingNotExpected ==
    \A m \in Mshr : \A k \in DOMAIN mshr[m].entries :
        expected[mshr[m].entries[k].proc_tag] = None

WaitingOnce ==
    \A m, n \in Mshr : \A j \in DOMAIN mshr[m].entries, k \in DOMAIN mshr[n].entries :
        mshr[m].entries[j].proc_tag = mshr[n].entries[k].proc_tag => m = n /\ j = k

\* No tag is in use that has not been issued: the next one is fresh everywhere.
TagsIssued ==
    /\ \A m \in Mshr : \A k \in DOMAIN mshr[m].entries : mshr[m].entries[k].proc_tag <= issued
    /\ \A t \in Tag : expected[t] # None => t <= issued
    /\ \A c \in early_comps : c.tag <= issued
    /\ DutTags(issued)

Books == WaitingNotExpected /\ WaitingOnce /\ EarlyHasNoExpectation /\ TagsIssued

IInv == TypeOK /\ OneBlockPerMshr /\ Books

LEMMA EntryTags ==
  GoldenTypeOK => \A m \in Mshr : \A k \in DOMAIN mshr[m].entries :
                      mshr[m].entries[k] \in Request /\ mshr[m].entries[k].proc_tag \in Tag
<1> SUFFICES ASSUME GoldenTypeOK, NEW m \in Mshr, NEW k \in DOMAIN mshr[m].entries
             PROVE  mshr[m].entries[k] \in Request /\ mshr[m].entries[k].proc_tag \in Tag
  OBVIOUS
<1>1. mshr[m].entries \in Seq(Request)
  BY MshrTypes
<1>2. mshr[m].entries[k] \in Request
  BY <1>1
<1>3. QED
  BY <1>2 DEF Request

LEMMA BooksGiveExpectedOnce ==
  ASSUME GoldenTypeOK, Books
  PROVE  ExpectedOnce
<1>1. ASSUME NEW t \in Waiting
      PROVE  t \notin Expected
  <2>1. PICK m \in Mshr : \E k \in DOMAIN mshr[m].entries : t = mshr[m].entries[k].proc_tag
    BY <1>1 DEF Waiting
  <2>2. QED
    BY <2>1, EntryTags DEF Books, WaitingNotExpected, Expected
<1>2. QED
  BY <1>1 DEF ExpectedOnce, Books, WaitingOnce

LEMMA TypesSplit ==
  TypeOK <=> /\ GoldenTypeOK /\ DutTypeOK
             /\ expected \in [Tag -> Completion \cup {None}]
             /\ early_comps \subseteq Completion
             /\ mismatches \subseteq Tag /\ forgotten \subseteq Tag
             /\ issued \in 0 .. MaxOps /\ overlapped \in BOOLEAN
  BY DEF TypeOK, DutTypeOK

LEMMA InitIInv == Init => IInv
<1> SUFFICES ASSUME Init PROVE IInv
  OBVIOUS
<1> USE DEF Init, GoldenInit
<1>1. 0 \in Value /\ [i \in Word |-> 0] \in Line
  BY GoldenAssumption DEF Line
<1>2. GoldenTypeOK
  <2>1. tag_array \in TagArray
    BY DEF TagArray, TagEntry
  <2>2. mshr \in MshrTable
    <3>1. [entries |-> << >>, victim_way |-> 0] \in MshrEntry
      BY DEF MshrEntry, Way
    <3>2. QED
      BY <3>1 DEF MshrTable
  <2>3. QED
    BY <1>1, <2>1, <2>2, NamedTypes DEF GoldenTypeOK
<1>3. DutTypeOK
  BY <1>1 DEF DutTypeOK
<1>4. TypeOK
  <2>1. issued \in 0 .. MaxOps
    BY ScoreboardAssumption
  <2>2. /\ expected \in [Tag -> Completion \cup {None}] /\ early_comps \subseteq Completion
        /\ mismatches \subseteq Tag /\ forgotten \subseteq Tag /\ overlapped \in BOOLEAN
    OBVIOUS
  <2>3. QED
    BY <1>2, <1>3, <2>1, <2>2, TypesSplit
<1>5. \A m \in Mshr : mshr[m].entries = << >>
  OBVIOUS
<1>6. OneBlockPerMshr
  BY <1>5 DEF OneBlockPerMshr
<1>7. Books
  BY <1>5 DEF Books, WaitingNotExpected, WaitingOnce, EarlyHasNoExpectation, TagsIssued,
              DutTags, TagsUpTo
<1>8. QED
  BY <1>4, <1>6, <1>7 DEF IInv

LEMMA WriteReqStep ==
  ASSUME IInv, write_req
  PROVE  IInv'
<1>1. PICK n \in Nat : n = issued + 1
  BY TypesSplit DEF IInv
<1>2. PICK r \in Request :
         /\ r.proc_tag = n /\ n \in Tag
         /\ DutTakes(r) /\ l1d_model_request(r)
         /\ expected' = Drained(RequestPushes(r))
         /\ issued' = n
         /\ overlapped' = (overlapped \/ Overlaps(r))
         /\ forgotten' = IF Forgets(r) THEN forgotten \cup {n} ELSE forgotten
         /\ UNCHANGED << early_comps, mismatches >>
  <2>1. PICK we \in BOOLEAN, a \in Address :
           LET r == [paddr |-> a, we |-> we, data |-> IF we THEN issued + 1 ELSE 0,
                     proc_tag |-> issued + 1]
           IN  /\ issued < MaxOps
               /\ DutTakes(r) /\ l1d_model_request(r)
               /\ expected' = Drained(RequestPushes(r))
               /\ issued' = issued + 1
               /\ overlapped' = (overlapped \/ Overlaps(r))
               /\ forgotten' = IF Forgets(r) THEN forgotten \cup {issued + 1} ELSE forgotten
               /\ UNCHANGED << early_comps, mismatches >>
    BY Zenon DEF write_req
  <2> DEFINE r == [paddr |-> a, we |-> we, data |-> IF we THEN n ELSE 0, proc_tag |-> n]
  <2>2. n \in Tag /\ n \in Value /\ 0 \in Value
    BY <1>1, <2>1, GoldenAssumption, ScoreboardAssumption, TypesSplit DEF IInv
  <2>3. r \in Request /\ r.proc_tag = n
    BY <2>2 DEF Request
  <2>4. QED
    BY <1>1, <2>1, <2>2, <2>3
<1>3. GoldenTypeOK /\ DutTypeOK /\ OneBlockPerMshr /\ expected \in [Tag -> Completion \cup {None}]
  BY TypesSplit DEF IInv
<1>4. GoldenTypeOK' /\ OneBlockPerMshr'
  BY <1>2, <1>3, RequestTypes, RequestKeepsOneBlock
<1>5. DutTypeOK' /\ DutTags(n)'
  <2>1. DutTags(n)
    <3>1. DutTags(issued) /\ issued \in Nat /\ issued <= n
      BY <1>1, ScoreboardAssumption, TypesSplit DEF IInv, Books, TagsIssued
    <3>2. QED
      BY <1>3, <3>1, SequenceTags DEF DutTags, DutTypeOK
  <2>2. QED
    BY <1>2, <1>3, <2>1, DutTakesTypes
<1>6. /\ RequestPushes(r) \in Seq(Completion)
      /\ \A k \in DOMAIN RequestPushes(r) : RequestPushes(r)[k].tag = n
  BY <1>2, <1>3, RequestPushesTypes
<1>7. /\ expected' \in [Tag -> Completion \cup {None}]
      /\ \A t \in Tag : expected'[t] # None => expected[t] # None \/ t = n
      /\ RequestPushes(r) = << >> => \A t \in Tag : expected'[t] # None => expected[t] # None
  BY <1>2, <1>3, <1>6, DrainedTypes
<1>8. TypeOK'
  <2>1. issued' \in 0 .. MaxOps
    BY <1>2, ScoreboardAssumption
  <2>2. forgotten' \subseteq Tag /\ overlapped' \in BOOLEAN
    BY <1>2, TypesSplit DEF IInv, Overlaps
  <2>3. early_comps' \subseteq Completion /\ mismatches' \subseteq Tag
    BY <1>2, TypesSplit DEF IInv
  <2>4. QED
    BY <1>4, <1>5, <1>7, <2>1, <2>2, <2>3 DEF TypeOK, DutTypeOK
<1>9. /\ \A t \in Tag : t <= issued => t # n /\ t <= n
      /\ WaitingNotExpected /\ WaitingOnce /\ EarlyHasNoExpectation /\ TagsIssued
  BY <1>1, ScoreboardAssumption, TypesSplit DEF IInv, Books
\* What waits after the step: the old entries, and perhaps the new request.
<1>10. WaitingNotExpected' /\ WaitingOnce'
       /\ \A m \in Mshr : \A k \in DOMAIN mshr'[m].entries : mshr'[m].entries[k].proc_tag <= n
  <2>1. \A m \in Mshr : \A k \in DOMAIN mshr[m].entries :
           /\ mshr[m].entries[k].proc_tag \in Tag
           /\ mshr[m].entries[k].proc_tag # n /\ mshr[m].entries[k].proc_tag <= n
           /\ expected'[mshr[m].entries[k].proc_tag] = None
    BY <1>3, <1>7, <1>9, EntryTags DEF TagsIssued, WaitingNotExpected
  <2>2. CASE mshr' = mshr
    BY <1>9, <2>1, <2>2 DEF WaitingNotExpected, WaitingOnce
  <2>3. ASSUME RequestPushes(r) = << >>, NEW m \in Mshr,
               mshr'[m].entries = Append(mshr[m].entries, r),
               \A o \in Mshr : o # m => mshr'[o].entries = mshr[o].entries
        PROVE  /\ WaitingNotExpected' /\ WaitingOnce'
               /\ \A o \in Mshr : \A k \in DOMAIN mshr'[o].entries :
                     mshr'[o].entries[k].proc_tag <= n
    <3>1. \A o \in Mshr : \A k \in DOMAIN mshr'[o].entries :
              \/ k \in DOMAIN mshr[o].entries /\ mshr'[o].entries[k] = mshr[o].entries[k]
              \/ o = m /\ k = Len(mshr[m].entries) + 1 /\ mshr'[o].entries[k] = r
      BY <1>3, <2>3, EntriesAfterRequest
    <3>2. expected'[n] = None
      BY <1>2, <1>7, <1>9, <2>3 DEF TagsIssued
    <3>3. WaitingNotExpected'
      BY <1>2, <2>1, <3>1, <3>2 DEF WaitingNotExpected
    <3>4. WaitingOnce'
      <4>1. ASSUME NEW o \in Mshr, NEW p \in Mshr, NEW j \in DOMAIN mshr'[o].entries,
                   NEW k \in DOMAIN mshr'[p].entries,
                   mshr'[o].entries[j].proc_tag = mshr'[p].entries[k].proc_tag
            PROVE  o = p /\ j = k
        <5>1. CASE /\ j \in DOMAIN mshr[o].entries /\ mshr'[o].entries[j] = mshr[o].entries[j]
                   /\ k \in DOMAIN mshr[p].entries /\ mshr'[p].entries[k] = mshr[p].entries[k]
          BY <1>9, <4>1, <5>1 DEF WaitingOnce
        <5>2. CASE /\ j \in DOMAIN mshr[o].entries /\ mshr'[o].entries[j] = mshr[o].entries[j]
                   /\ mshr'[p].entries[k] = r
          BY <1>2, <2>1, <4>1, <5>2
        <5>3. CASE /\ mshr'[o].entries[j] = r
                   /\ k \in DOMAIN mshr[p].entries /\ mshr'[p].entries[k] = mshr[p].entries[k]
          BY <1>2, <2>1, <4>1, <5>3
        <5>4. CASE /\ o = m /\ j = Len(mshr[m].entries) + 1
                   /\ p = m /\ k = Len(mshr[m].entries) + 1
          BY <5>4
        <5>5. QED
          BY <3>1, <4>1, <5>1, <5>2, <5>3, <5>4
      <4>2. QED
        BY <4>1 DEF WaitingOnce
    <3>5. QED
      BY <1>2, <2>1, <3>1, <3>3, <3>4
  <2>4. QED
    BY <1>2, <1>3, <2>2, <2>3, RequestWaits
<1>11. EarlyHasNoExpectation'
  <2>1. \A c \in early_comps : c.tag \in Tag /\ c.tag # n /\ expected[c.tag] = None
    <3>1. \A c \in early_comps : c.tag \in Tag
      BY TypesSplit DEF IInv, Completion
    <3>2. QED
      BY <1>9, <3>1 DEF EarlyHasNoExpectation, Expected, TagsIssued
  <2>2. QED
    BY <1>2, <1>7, <2>1 DEF EarlyHasNoExpectation, Expected
<1>12. TagsIssued'
  <2>1. \A t \in Tag : expected'[t] # None => t <= n
    BY <1>1, <1>7, <1>9 DEF TagsIssued
  <2>2. \A c \in early_comps' : c.tag <= n
    <3>1. \A c \in early_comps : c.tag \in Tag
      BY TypesSplit DEF IInv, Completion
    <3>2. QED
      BY <1>2, <1>9, <3>1 DEF TagsIssued
  <2>3. QED
    BY <1>2, <1>5, <1>10, <2>1, <2>2 DEF TagsIssued, DutTags
<1>13. QED
  BY <1>4, <1>8, <1>10, <1>11, <1>12 DEF IInv, Books

LEMMA DutFillsStep ==
  ASSUME IInv, DutFills
  PROVE  IInv'
<1>1. PICK n \in Nat : n = issued
  BY ScoreboardAssumption, TypesSplit DEF IInv
<1>2. DutTypeOK' /\ DutTags(n)'
  BY <1>1, DutFillsTypes, TypesSplit DEF IInv, Books, TagsIssued
<1>3. UNCHANGED << goldenVars, scoreboardVars, historyVars, issued >>
  BY DEF DutFills
<1>4. GoldenTypeOK' /\ mshr' = mshr /\ expected' = expected /\ early_comps' = early_comps
  BY <1>3, TypesSplit DEF IInv, goldenVars, scoreboardVars, GoldenTypeOK
<1>5. TypeOK'
  BY <1>2, <1>3, <1>4, TypesSplit DEF IInv, TypeOK, DutTypeOK, scoreboardVars, historyVars
<1>6. OneBlockPerMshr'
  BY <1>4 DEF IInv, OneBlockPerMshr
<1>7. WaitingNotExpected' /\ WaitingOnce' /\ EarlyHasNoExpectation'
  BY <1>4 DEF IInv, Books, WaitingNotExpected, WaitingOnce, EarlyHasNoExpectation, Expected
<1>8. TagsIssued'
  BY <1>1, <1>2, <1>3, <1>4 DEF IInv, Books, TagsIssued, DutTags
<1>9. QED
  BY <1>5, <1>6, <1>7, <1>8 DEF IInv, Books

LEMMA WriteFillStep ==
  ASSUME IInv, write_fill
  PROVE  IInv'
<1> DEFINE b == fill_event.block
           line == fill_event.line
           pushed == FillPushes(b, line)
           filed == Drained(pushed)
           found == Resolved(filed)
<1>1. /\ GoldenTypeOK /\ DutTypeOK /\ OneBlockPerMshr
      /\ expected \in [Tag -> Completion \cup {None}] /\ early_comps \subseteq Completion
      /\ WaitingNotExpected /\ WaitingOnce /\ EarlyHasNoExpectation /\ TagsIssued
  BY TypesSplit DEF IInv, Books
<1>2. b \in Block /\ line \in Line
  BY <1>1 DEF write_fill, DutTypeOK
<1>3. /\ l1d_model_fill(b, line)
      /\ early_comps' = early_comps \ found
      /\ expected' = [t \in Tag |-> IF \E c \in found : c.tag = t THEN None ELSE filed[t]]
      /\ mismatches' = mismatches \cup {c.tag : c \in {d \in found : Wrong(d, filed[d.tag])}}
      /\ fill_event' = None
      /\ UNCHANGED << issued, memory, dut_array, dut_plru, dut_mshr, dut_line, answers, historyVars >>
  BY DEF write_fill
<1>4. GoldenTypeOK' /\ OneBlockPerMshr'
  BY <1>1, <1>2, <1>3, FillTypes, FillKeepsOneBlock
<1>5. /\ pushed \in Seq(Completion)
      /\ Tracking(b) = {} => pushed = << >>
      /\ Tracking(b) # {} =>
           \A k \in DOMAIN pushed :
               /\ k \in DOMAIN mshr[Min(Tracking(b))].entries
               /\ pushed[k].tag = mshr[Min(Tracking(b))].entries[k].proc_tag
  BY <1>1, <1>2, FillPushesTypes
<1> HIDE DEF b, line, pushed
<1>6. /\ filed \in [Tag -> Completion \cup {None}]
      /\ \A t \in Tag : filed[t] # None =>
           expected[t] # None \/ \E k \in DOMAIN pushed : pushed[k].tag = t
  BY <1>1, <1>5, DrainedTypes
<1> HIDE DEF filed
<1>7. found = {c \in early_comps : filed[c.tag] # None}
  BY DEF Resolved
<1> HIDE DEF found
<1>8. /\ expected' \in [Tag -> Completion \cup {None}]
      /\ \A t \in Tag : expected'[t] # None => filed[t] # None
  BY <1>3, <1>6
<1>9. TypeOK'
  <2>1. mismatches' \subseteq Tag
    <3>1. \A c \in found : c.tag \in Tag
      BY <1>1, <1>7 DEF Completion
    <3>2. mismatches \subseteq Tag
      BY TypesSplit DEF IInv
    <3>3. QED
      BY <1>3, <3>1, <3>2
  <2>2. DutTypeOK'
    BY <1>1, <1>3 DEF DutTypeOK
  <2>3. early_comps' \subseteq Completion
    BY <1>1, <1>3
  <2>4. issued' \in 0 .. MaxOps /\ overlapped' \in BOOLEAN /\ forgotten' \subseteq Tag
    BY <1>3, TypesSplit DEF IInv, historyVars
  <2>5. QED
    BY <1>4, <1>8, <2>1, <2>2, <2>3, <2>4 DEF TypeOK, DutTypeOK
\* What waits after the step waited before, and is not of the MSHR that was emptied.
<1>10. \A m \in Mshr : \A k \in DOMAIN mshr'[m].entries :
          /\ k \in DOMAIN mshr[m].entries /\ mshr'[m].entries[k] = mshr[m].entries[k]
          /\ \A j \in DOMAIN pushed : pushed[j].tag # mshr[m].entries[k].proc_tag
  <2>1. CASE Tracking(b) = {} /\ mshr' = mshr
    BY <1>5, <2>1
  <2>2. ASSUME NEW e \in Mshr, Tracking(b) # {}, e = Min(Tracking(b)),
               mshr'[e].entries = << >>,
               \A o \in Mshr : o # e => mshr'[o].entries = mshr[o].entries,
               NEW m \in Mshr, NEW k \in DOMAIN mshr'[m].entries
        PROVE  /\ k \in DOMAIN mshr[m].entries /\ mshr'[m].entries[k] = mshr[m].entries[k]
               /\ \A j \in DOMAIN pushed : pushed[j].tag # mshr[m].entries[k].proc_tag
    <3>1. m # e
      BY <2>2
    <3>2. k \in DOMAIN mshr[m].entries /\ mshr'[m].entries[k] = mshr[m].entries[k]
      BY <2>2, <3>1
    <3>3. QED
      BY <1>1, <1>5, <2>2, <3>1, <3>2 DEF WaitingOnce
  <2>3. QED
    BY <1>1, <1>2, <1>3, <2>1, <2>2, FillEmpties
<1>11. WaitingNotExpected' /\ WaitingOnce'
  <2>1. WaitingNotExpected'
    <3>1. ASSUME NEW m \in Mshr, NEW k \in DOMAIN mshr'[m].entries
          PROVE  expected'[mshr'[m].entries[k].proc_tag] = None
      <4> DEFINE t == mshr[m].entries[k].proc_tag
      <4>1. t \in Tag /\ expected[t] = None /\ mshr'[m].entries[k].proc_tag = t
        BY <1>1, <1>10, <3>1, EntryTags DEF WaitingNotExpected
      <4>2. \A j \in DOMAIN pushed : pushed[j].tag # t
        BY <1>10, <3>1
      <4>3. QED
        BY <1>6, <1>8, <4>1, <4>2
    <3>2. QED
      BY <3>1 DEF WaitingNotExpected
  <2>2. WaitingOnce'
    BY <1>1, <1>10 DEF WaitingOnce
  <2>3. QED
    BY <2>1, <2>2
<1>12. EarlyHasNoExpectation'
  <2>1. ASSUME NEW c \in early_comps'
        PROVE  c.tag \in Tag /\ expected'[c.tag] = None
    <3>1. c \in early_comps /\ c \notin found /\ c.tag \in Tag
      BY <1>1, <1>3, <2>1 DEF Completion
    <3>2. filed[c.tag] = None
      BY <1>7, <3>1
    <3>3. QED
      BY <1>8, <3>1, <3>2
  <2>2. QED
    BY <2>1 DEF EarlyHasNoExpectation, Expected
<1>13. TagsIssued'
  <2>1. \A t \in Tag : expected'[t] # None => t <= issued
    <3>1. ASSUME NEW t \in Tag, filed[t] # None
          PROVE  t <= issued
      <4>1. CASE expected[t] # None
        BY <1>1, <4>1 DEF TagsIssued
      <4>2. CASE \E k \in DOMAIN pushed : pushed[k].tag = t
        <5>1. Tracking(b) # {}
          BY <1>5, <4>2
        <5>2. Min(Tracking(b)) \in Mshr
          BY <1>2, <5>1, Chosen DEF Tracking
        <5>3. QED
          BY <1>1, <1>5, <4>2, <5>1, <5>2 DEF TagsIssued
      <4>3. QED
        BY <1>6, <3>1, <4>1, <4>2
    <3>2. QED
      BY <1>8, <3>1
  <2>2. \A m \in Mshr : \A k \in DOMAIN mshr'[m].entries : mshr'[m].entries[k].proc_tag <= issued
    BY <1>1, <1>10 DEF TagsIssued
  <2>3. issued' = issued /\ DutTags(issued)' /\ \A c \in early_comps' : c.tag <= issued
    BY <1>1, <1>3 DEF TagsIssued, DutTags
  <2>4. QED
    BY <2>1, <2>2, <2>3 DEF TagsIssued
<1>14. QED
  BY <1>4, <1>9, <1>11, <1>12, <1>13 DEF IInv, Books

LEMMA WriteCompStep ==
  ASSUME IInv, write_comp
  PROVE  IInv'
<1> DEFINE c == Head(answers)
<1>1. PICK n \in Nat : n = issued
  BY ScoreboardAssumption, TypesSplit DEF IInv
<1>2. /\ GoldenTypeOK /\ DutTypeOK /\ DutTags(n)
      /\ expected \in [Tag -> Completion \cup {None}] /\ early_comps \subseteq Completion
      /\ mismatches \subseteq Tag
      /\ WaitingNotExpected /\ WaitingOnce /\ EarlyHasNoExpectation /\ TagsIssued
  BY <1>1, TypesSplit DEF IInv, Books, TagsIssued
<1>3. DutTypeOK' /\ DutTags(n)' /\ c \in Completion /\ c.tag <= n
  BY <1>2, WriteCompTypes
<1>4. UNCHANGED << goldenVars, historyVars, issued >>
  BY DEF write_comp
<1>5. \/ /\ expected[c.tag] = None
         /\ early_comps' = early_comps \cup {c} /\ UNCHANGED << expected, mismatches >>
      \/ /\ expected[c.tag] # None /\ expected' = [expected EXCEPT ![c.tag] = None]
         /\ mismatches' = mismatches \cup {c.tag} \/ mismatches' = mismatches
         /\ early_comps' = early_comps
  BY DEF write_comp
<1> HIDE DEF c
<1>6. c.tag \in Tag
  BY <1>3 DEF Completion
<1>7. /\ expected' \in [Tag -> Completion \cup {None}]
      /\ \A t \in Tag : expected'[t] # None => expected[t] # None
      /\ mismatches' \subseteq Tag /\ early_comps' \subseteq Completion
      /\ early_comps' \subseteq early_comps \cup {c}
      /\ c \in early_comps' \ early_comps => expected'[c.tag] = None
  BY <1>2, <1>3, <1>5, <1>6
<1>8. GoldenTypeOK' /\ mshr' = mshr
  BY <1>2, <1>4 DEF goldenVars, GoldenTypeOK
<1>9. TypeOK'
  BY <1>3, <1>4, <1>7, <1>8, TypesSplit DEF IInv, TypeOK, DutTypeOK, historyVars
<1>10. OneBlockPerMshr'
  BY <1>8 DEF IInv, OneBlockPerMshr
<1>11. WaitingNotExpected' /\ WaitingOnce'
  BY <1>2, <1>7, <1>8, EntryTags DEF WaitingNotExpected, WaitingOnce
<1>12. EarlyHasNoExpectation'
  <2>1. \A d \in early_comps : d.tag \in Tag
    BY <1>2 DEF Completion
  <2>2. QED
    BY <1>2, <1>6, <1>7, <2>1 DEF EarlyHasNoExpectation, Expected
<1>13. TagsIssued'
  BY <1>1, <1>2, <1>3, <1>4, <1>7, <1>8 DEF TagsIssued, DutTags
<1>14. QED
  BY <1>9, <1>10, <1>11, <1>12, <1>13 DEF IInv, Books

LEMMA StepIInv == IInv /\ [Next]_vars => IInv'
<1> SUFFICES ASSUME IInv, [Next]_vars PROVE IInv'
  OBVIOUS
<1>1. CASE UNCHANGED vars
  <2>1. TypeOK' /\ OneBlockPerMshr'
    BY <1>1 DEF vars, goldenVars, scoreboardVars, dutVars, historyVars, IInv, TypeOK,
                GoldenTypeOK, OneBlockPerMshr
  <2>2. Books'
    BY <1>1 DEF vars, goldenVars, scoreboardVars, dutVars, IInv, Books, WaitingNotExpected,
                WaitingOnce, EarlyHasNoExpectation, Expected, TagsIssued, DutTags
  <2>3. QED
    BY <2>1, <2>2 DEF IInv
<1>2. QED
  BY <1>1, WriteReqStep, DutFillsStep, WriteFillStep, WriteCompStep DEF Next

\* Golden model, scoreboard and L1D keep the types of their state.
THEOREM ScoreboardTypeCorrect == Spec => []TypeOK
<1>1. IInv => TypeOK
  BY DEF IInv
<1>2. QED
  BY InitIInv, StepIInv, <1>1, PTL DEF Spec

\* A fill of the golden model answers exactly the requests for its block.
THEOREM GoldenOneBlockPerMshr == Spec => []OneBlockPerMshr
<1>1. IInv => OneBlockPerMshr
  BY DEF IInv
<1>2. QED
  BY InitIInv, StepIInv, <1>1, PTL DEF Spec

\* No request waits twice, or waits and is expected.
THEOREM ScoreboardExpectsOnce == Spec => []ExpectedOnce
<1>1. IInv => ExpectedOnce
  BY BooksGiveExpectedOnce, TypesSplit DEF IInv
<1>2. QED
  BY InitIInv, StepIInv, <1>1, PTL DEF Spec

\* What is buffered could not be checked: write_req may drain without resolving.
THEOREM BufferHasNoExpectation == Spec => []EarlyHasNoExpectation
<1>1. IInv => EarlyHasNoExpectation
  BY DEF IInv, Books
<1>2. QED
  BY InitIInv, StepIInv, <1>1, PTL DEF Spec

-----------------------------------------------------------------------------
(* Stores that wait, and the line after them.                              *)

\* What a fill answers to the requests of one MSHR.
Pushes(entries, line) ==
    [k \in DOMAIN entries |->
        LET e == entries[k]
        IN  [tag |-> e.proc_tag, is_write |-> e.we,
             data |-> IF e.we THEN 0
                      ELSE AfterStores(SubSeq(entries, 1, k), e.paddr.word, line[e.paddr.word])]]

LEMMA TracksOne ==
  ASSUME GoldenTypeOK, OneBlockPerMshr, NEW b \in Block, NEW m \in Tracking(b)
  PROVE  /\ m \in Mshr /\ mshr[m].entries \in Seq(Request) /\ mshr[m].entries # << >>
         /\ Tracking(b) = {m} /\ Min(Tracking(b)) = m
         /\ \A line : FillPushes(b, line) = Pushes(mshr[m].entries, line)
<1>1. m \in Mshr /\ mshr[m].entries \in Seq(Request) /\ mshr[m].entries # << >>
  BY MshrTypes DEF Tracking, Active
<1>2. \A n \in Tracking(b) : 1 \in DOMAIN mshr[n].entries /\ n \in Mshr
  BY MshrTypes DEF Tracking, Active
<1>3. \A n \in Tracking(b) : n = m
  BY <1>2 DEF Tracking, OneBlockPerMshr
<1>4. Min(Tracking(b)) = m
  BY <1>3, Chosen
<1>5. QED
  BY <1>1, <1>3, <1>4 DEF FillPushes, Pushes

\* A store is the youngest of those before it and itself.
LEMMA StoresAppend ==
  ASSUME NEW q \in Seq(Request), NEW r \in Request, NEW i \in Word, NEW old
  PROVE  AfterStores(Append(q, r), i, old)
           = IF r.we /\ r.paddr.word = i THEN r.data ELSE AfterStores(q, i, old)
<1> DEFINE n == Len(q)
           p == Append(q, r)
<1>1. /\ n \in Nat /\ DOMAIN q = 1 .. n /\ DOMAIN p = 1 .. n + 1
      /\ p[n + 1] = r /\ \A k \in 1 .. n : p[k] = q[k]
  BY AppendProperties
<1> HIDE DEF n, p
<1>2. CASE r.we /\ r.paddr.word = i
  <2>1. n + 1 \in StoresTo(p, i) /\ StoresTo(p, i) \in SUBSET Int
    BY <1>1, <1>2 DEF StoresTo
  <2>2. \A k \in StoresTo(p, i) : k <= n + 1
    BY <1>1 DEF StoresTo
  <2>3. Max(StoresTo(p, i)) = n + 1
    BY <2>1, <2>2, MaxIs
  <2>4. AfterStores(p, i, old) = r.data
    BY <1>1, <2>1, <2>3 DEF AfterStores
  <2>5. QED
    BY <1>2, <2>4 DEF p
<1>3. CASE ~(r.we /\ r.paddr.word = i)
  <2>1. StoresTo(p, i) = StoresTo(q, i)
    BY <1>1, <1>3 DEF StoresTo
  <2>2. StoresTo(q, i) \in SUBSET (0 .. n)
    BY <1>1 DEF StoresTo
  <2>3. StoresTo(q, i) # {} => p[Max(StoresTo(q, i))] = q[Max(StoresTo(q, i))]
    <3>1. StoresTo(q, i) # {} => Max(StoresTo(q, i)) \in StoresTo(q, i)
      BY <1>1, <2>2, MaxMember
    <3>2. QED
      BY <1>1, <3>1 DEF StoresTo
  <2>4. AfterStores(p, i, old) = AfterStores(q, i, old)
    BY <2>1, <2>3 DEF AfterStores
  <2>5. QED
    BY <1>3, <2>4 DEF p
<1>4. QED
  BY <1>2, <1>3

\* Without a store a word is what it was; with one it is a store's data.
LEMMA StoresOrOld ==
  ASSUME NEW q \in Seq(Request), NEW i
  PROVE  /\ StoresTo(q, i) = {} => \A old : AfterStores(q, i, old) = old
         /\ StoresTo(q, i) # {} =>
              /\ \A old, o : AfterStores(q, i, old) = AfterStores(q, i, o)
              /\ \E k \in DOMAIN q : q[k].we /\ \A old : AfterStores(q, i, old) = q[k].data
<1>1. Len(q) \in Nat /\ StoresTo(q, i) \in SUBSET (0 .. Len(q))
  BY DEF StoresTo
<1>2. StoresTo(q, i) # {} => Max(StoresTo(q, i)) \in StoresTo(q, i)
  BY <1>1, MaxMember
<1>3. StoresTo(q, i) # {} => Max(StoresTo(q, i)) \in DOMAIN q /\ q[Max(StoresTo(q, i))].we
  BY <1>2 DEF StoresTo
<1>4. QED
  BY <1>3 DEF AfterStores

LEMMA PlayedBackLaws ==
  ASSUME NEW q \in Seq(Request), NEW line \in Line
  PROVE  /\ PlayedBack(<< >>, line) = line
         /\ PlayedBack(q, PlayedBack(q, line)) = PlayedBack(q, line)
         /\ \A r \in Request :
              PlayedBack(Append(q, r), line)
                = IF r.we THEN [PlayedBack(q, line) EXCEPT ![r.paddr.word] = r.data]
                  ELSE PlayedBack(q, line)
<1>1. PlayedBack(<< >>, line) = line
  <2>1. \A i \in Word : AfterStores(<< >>, i, line[i]) = line[i]
    BY DEF AfterStores, StoresTo
  <2>2. QED
    BY <2>1 DEF PlayedBack, Line
<1>2. PlayedBack(q, PlayedBack(q, line)) = PlayedBack(q, line)
  <2>1. \A i \in Word : AfterStores(q, i, AfterStores(q, i, line[i])) = AfterStores(q, i, line[i])
    BY StoresOrOld
  <2>2. QED
    BY <2>1 DEF PlayedBack
<1>3. ASSUME NEW r \in Request
      PROVE  PlayedBack(Append(q, r), line)
               = IF r.we THEN [PlayedBack(q, line) EXCEPT ![r.paddr.word] = r.data]
                 ELSE PlayedBack(q, line)
  <2>1. \A i \in Word : AfterStores(Append(q, r), i, line[i])
           = IF r.we /\ r.paddr.word = i THEN r.data ELSE AfterStores(q, i, line[i])
    BY StoresAppend
  <2>2. PlayedBack(Append(q, r), line)
           = [i \in Word |-> IF r.we /\ r.paddr.word = i THEN r.data ELSE PlayedBack(q, line)[i]]
    BY <2>1 DEF PlayedBack
  <2>3. PlayedBack(q, line) = [i \in Word |-> PlayedBack(q, line)[i]]
    BY DEF PlayedBack
  <2>4. QED
    BY <2>2, <2>3
<1>4. QED
  BY <1>1, <1>2, <1>3

\* The answer to a request that waits last.
LastPush(q, r, line) ==
    [tag |-> r.proc_tag, is_write |-> r.we,
     data |-> IF r.we THEN 0 ELSE AfterStores(q, r.paddr.word, line[r.paddr.word])]

LEMMA PushesAppend ==
  ASSUME NEW q \in Seq(Request), NEW r \in Request, NEW line
  PROVE  Pushes(Append(q, r), line) = Append(Pushes(q, line), LastPush(q, r, line))
<1> DEFINE n == Len(q)
           p == Append(q, r)
           e(k) == Pushes(p, line)[k]
<1>1. /\ n \in Nat /\ DOMAIN q = 1 .. n /\ p \in Seq(Request) /\ DOMAIN p = 1 .. n + 1
      /\ Len(p) = n + 1 /\ p[n + 1] = r /\ \A k \in 1 .. n : p[k] = q[k]
  BY AppendProperties
<1>2. \A k \in 1 .. n : SubSeq(p, 1, k) = SubSeq(q, 1, k)
  <2>1. ASSUME NEW k \in 1 .. n
        PROVE  SubSeq(p, 1, k) = SubSeq(q, 1, k)
    BY <1>1
  <2>2. QED
    BY <2>1
<1>3. AfterStores(SubSeq(p, 1, n + 1), r.paddr.word, line[r.paddr.word])
        = AfterStores(p, r.paddr.word, line[r.paddr.word])
  <2>1. SubSeq(p, 1, n + 1) = p
    BY <1>1
  <2>2. QED
    BY <2>1
<1> HIDE DEF n, p
<1>4. ~r.we => AfterStores(p, r.paddr.word, line[r.paddr.word])
                 = AfterStores(q, r.paddr.word, line[r.paddr.word])
  <2>1. r.paddr.word \in Word
    BY DEF Request, Address
  <2>2. QED
    BY <2>1, StoresAppend DEF p
<1>5. /\ Pushes(q, line) = [k \in 1 .. n |-> Pushes(q, line)[k]]
      /\ Pushes(p, line) = [k \in 1 .. n + 1 |-> Pushes(p, line)[k]]
  BY <1>1 DEF Pushes
<1>6. \A k \in 1 .. n : Pushes(p, line)[k] = Pushes(q, line)[k]
  <2>1. ASSUME NEW k \in 1 .. n
        PROVE  Pushes(p, line)[k] = Pushes(q, line)[k]
    <3>1. p[k] = q[k] /\ SubSeq(p, 1, k) = SubSeq(q, 1, k) /\ k \in DOMAIN p /\ k \in DOMAIN q
      BY <1>1, <1>2
    <3>2. QED
      BY <3>1 DEF Pushes
  <2>2. QED
    BY <2>1
<1>7. Pushes(p, line)[n + 1] = LastPush(q, r, line)
  <2>1. n + 1 \in DOMAIN p
    BY <1>1
  <2>2. QED
    BY <1>1, <1>3, <1>4, <2>1 DEF Pushes, LastPush
<1> DEFINE S == {Pushes(p, line)[k] : k \in 1 .. n + 1}
           u == Pushes(q, line)
           v == Pushes(p, line)
           x == LastPush(q, r, line)
<1>8. /\ u \in Seq(S) /\ Len(u) = n
      /\ v \in Seq(S) /\ Len(v) = n + 1
      /\ x \in S
  <2>1. \A k \in 1 .. n : u[k] \in S
    BY <1>1, <1>6
  <2>2. \A k \in 1 .. n + 1 : v[k] \in S
    OBVIOUS
  <2>3. x \in S
    BY <1>1, <1>7
  <2> HIDE DEF S, u, v, x
  <2>4. u \in [1 .. n -> S] /\ v \in [1 .. n + 1 -> S]
    BY <1>5, <2>1, <2>2 DEF u, v
  <2>5. QED
    BY <1>1, <2>3, <2>4
<1>9. \A k \in 1 .. n : v[k] = u[k]
  BY <1>6
<1>10. v[n + 1] = x
  BY <1>7
<1> HIDE DEF S, u, v, x
<1>11. /\ Append(u, x) \in Seq(S) /\ Len(Append(u, x)) = n + 1
       /\ \A k \in 1 .. n : Append(u, x)[k] = u[k]
       /\ Append(u, x)[n + 1] = x
  BY <1>8, AppendProperties
<1>12. \A k \in 1 .. n + 1 : v[k] = Append(u, x)[k]
  <2>1. \A k \in 1 .. n + 1 : k \in 1 .. n \/ k = n + 1
    BY <1>1
  <2>2. QED
    BY <1>9, <1>10, <1>11, <2>1
<1>13. v = Append(u, x)
  BY <1>8, <1>11, <1>12, SeqEqual
<1>14. QED
  BY <1>13 DEF p, u, v, x
-----------------------------------------------------------------------------
(* What golden model and L1D agree on.                                     *)

\* The fill the monitor has not seen is for block b.
Filling(b) == fill_event # None /\ fill_event.block = b

\* What the golden model will push for the fill the monitor has not seen.
Pushed == IF fill_event = None THEN << >> ELSE FillPushes(fill_event.block, fill_event.line)

\* The L1D waits with the answers the golden model will push.
WaitInv ==
    /\ \A b \in Block : Tracking(b) = {} => dut_mshr[b] = << >>
    /\ \A b \in Block : \A m \in Tracking(b) :
           dut_mshr[b] = IF Filling(b) THEN << >> ELSE Pushes(mshr[m].entries, dut_line[b])
    /\ fill_event # None =>
           /\ Tracking(fill_event.block) # {}
           /\ fill_event.line = dut_line[fill_event.block]

\* Memory is the line and the stores that wait; no store is as old as the line.
ValueInv ==
    /\ legacy_mem = memory
    /\ \A b \in Block, i \in Word : memory[b][i] \in 0 .. issued /\ dut_line[b][i] \in 0 .. issued
    /\ \A b \in Block : \A m \in Tracking(b) :
           /\ memory[b] = PlayedBack(mshr[m].entries, dut_line[b])
           /\ \A k \in DOMAIN mshr[m].entries : mshr[m].entries[k].we =>
                  /\ mshr[m].entries[k].data \in Nat
                  /\ \A i \in Word : dut_line[b][i] < mshr[m].entries[k].data

\* A block being fetched has its set to itself, and the way given up for it is the
\* one the L1D will choose.
VictimInv ==
    \A b \in Block : \A m \in Tracking(b) :
        /\ mshr[m].victim_way = plru_victim(plru_bits[SetOf[b]])
        /\ ~tag_array[mshr[m].victim_way][SetOf[b]].valid
        /\ \A c \in Block : Tracking(c) # {} /\ SetOf[c] = SetOf[b] => c = b
        /\ DutWays(b) = IF Filling(b) THEN {mshr[m].victim_way} ELSE {}

\* A way holds the same block and its latest values in both; or it was given up.
HeldInv ==
    \A w \in Way, s \in Set :
        IF tag_array[w][s].valid
        THEN /\ dut_array[w][s] = tag_array[w][s].tag
             /\ data_array[w][s] = memory[tag_array[w][s].tag]
        ELSE \/ dut_array[w][s] = None
             \/ \E b \in Block : \E m \in Tracking(b) : SetOf[b] = s /\ mshr[m].victim_way = w

\* A block is in one way of its set.
OneWayInv ==
    \A w \in Way, s \in Set : dut_array[w][s] # None =>
        SetOf[dut_array[w][s]] = s /\ DutWays(dut_array[w][s]) = {w}

\* The replacement bits are the same, but for the fill not seen yet.
PlruInv ==
    \A s \in Set :
        IF fill_event # None /\ SetOf[fill_event.block] = s
        THEN \A m \in Tracking(fill_event.block) :
                 dut_plru[s] = plru_update(plru_bits[s], mshr[m].victim_way)
        ELSE dut_plru[s] = plru_bits[s]

In(c, q) == \E k \in DOMAIN q : q[k] = c

\* An answer on its way is what is expected, or what the fill on its way will make
\* expected; what came early and what is expected are exactly those.
AnswerInv ==
    /\ \A k \in DOMAIN answers : expected[answers[k].tag] = answers[k] \/ In(answers[k], Pushed)
    /\ \A j, k \in DOMAIN answers : answers[j].tag = answers[k].tag => j = k
    /\ \A k \in DOMAIN answers : \A c \in early_comps : c.tag # answers[k].tag
    /\ \A c \in early_comps : In(c, Pushed)
    /\ \A j \in DOMAIN Pushed : Pushed[j] \in early_comps \/ In(Pushed[j], answers)
    /\ \A t \in Expected : \E k \in DOMAIN answers : answers[k].tag = t
    /\ mismatches = {} /\ forgotten = {}

CacheInv == WaitInv /\ ValueInv /\ VictimInv /\ HeldInv /\ OneWayInv /\ PlruInv

Agreement == CacheInv /\ AnswerInv

AgreeInv == IInv /\ (~overlapped => Agreement)

\* A fill's completions are those of waiting requests: not expected, and no two alike.
LEMMA PushesWait ==
  ASSUME IInv, NEW b \in Block, NEW m \in Tracking(b), NEW line \in Line
  PROVE  LET P == Pushes(mshr[m].entries, line)
         IN  /\ P \in Seq(Completion) /\ Len(P) = Len(mshr[m].entries) /\ P # << >>
             /\ \A j \in DOMAIN P : P[j].tag \in Tag /\ expected[P[j].tag] = None
             /\ \A j, k \in DOMAIN P : P[j].tag = P[k].tag => j = k
<1> DEFINE q == mshr[m].entries
           P == Pushes(q, line)
<1>1. GoldenTypeOK /\ OneBlockPerMshr /\ WaitingNotExpected /\ WaitingOnce
  BY TypesSplit DEF IInv, Books
<1>2. /\ m \in Mshr /\ q \in Seq(Request) /\ q # << >>
      /\ Tracking(b) # {} /\ FillPushes(b, line) = P
  BY <1>1, TracksOne
<1>3. P \in Seq(Completion)
  BY <1>1, <1>2, FillPushesTypes
<1>4. DOMAIN P = DOMAIN q /\ \A j \in DOMAIN q : P[j].tag = q[j].proc_tag
  BY DEF Pushes
<1>5. Len(P) = Len(q) /\ P # << >>
  <2> HIDE DEF P, q
  <2>1. DOMAIN q = 1 .. Len(q) /\ Len(q) \in Nat \ {0}
    BY <1>2, EmptySeq
  <2>2. P \in [1 .. Len(q) -> Completion]
    BY <1>3, <1>4, <2>1
  <2>3. Len(P) = Len(q)
    BY <2>1, <2>2
  <2>4. QED
    BY <2>1, <2>3
<1>6. \A j \in DOMAIN P : P[j].tag \in Tag /\ expected[P[j].tag] = None
  BY <1>1, <1>2, <1>4, EntryTags DEF WaitingNotExpected
<1>7. \A j, k \in DOMAIN P : P[j].tag = P[k].tag => j = k
  BY <1>1, <1>2, <1>4 DEF WaitingOnce
<1>8. QED
  BY <1>3, <1>5, <1>6, <1>7

\* The L1D fetches what the golden model tracks, until its fill has come.
LEMMA FetchedTracked ==
  ASSUME IInv, WaitInv
  PROVE  Fetched = {b \in Block : Tracking(b) # {} /\ ~Filling(b)}
<1>1. ASSUME NEW b \in Block, NEW m \in Tracking(b), ~Filling(b)
      PROVE  dut_mshr[b] # << >>
  <2>1. dut_line[b] \in Line
    BY TypesSplit DEF IInv, DutTypeOK
  <2>2. QED
    BY <1>1, <2>1, PushesWait DEF WaitInv
<1>2. ASSUME NEW b \in Block, NEW m \in Tracking(b), Filling(b)
      PROVE  dut_mshr[b] = << >>
  BY <1>2 DEF WaitInv
<1>3. \A b \in Block : Tracking(b) = {} => dut_mshr[b] = << >>
  BY DEF WaitInv
<1>4. QED
  BY <1>1, <1>2, <1>3 DEF Fetched

\* What is pushed for the fill on its way.
LEMMA PushedWait ==
  ASSUME IInv, WaitInv
  PROVE  /\ Pushed \in Seq(Completion)
         /\ \A j \in DOMAIN Pushed : Pushed[j].tag \in Tag /\ expected[Pushed[j].tag] = None
         /\ \A j, k \in DOMAIN Pushed : Pushed[j].tag = Pushed[k].tag => j = k
<1>1. CASE fill_event = None
  BY <1>1 DEF Pushed
<1>2. CASE fill_event # None
  <2>1. fill_event.block \in Block /\ fill_event.line \in Line
    BY <1>2, TypesSplit DEF IInv, DutTypeOK
  <2>2. PICK m \in Tracking(fill_event.block) : TRUE
    BY <1>2 DEF WaitInv
  <2>3. GoldenTypeOK /\ OneBlockPerMshr
    BY TypesSplit DEF IInv
  <2>4. Pushed = Pushes(mshr[m].entries, fill_event.line)
    BY <1>2, <2>1, <2>2, <2>3, TracksOne DEF Pushed
  <2>5. LET P == Pushes(mshr[m].entries, fill_event.line)
        IN  /\ P \in Seq(Completion)
            /\ \A j \in DOMAIN P : P[j].tag \in Tag /\ expected[P[j].tag] = None
            /\ \A j, k \in DOMAIN P : P[j].tag = P[k].tag => j = k
    BY <2>1, <2>2, PushesWait
  <2>6. QED
    BY <2>4, <2>5
<1>3. QED
  BY <1>1, <1>2

-----------------------------------------------------------------------------
\* While the L1D takes requests nothing is on its way.
LEMMA NothingOnItsWay ==
  ASSUME IInv, Agreement, fill_event = None, answers = << >>
  PROVE  early_comps = {} /\ Pushed = << >> /\ \A t \in Tag : expected[t] = None
<1>1. Pushed = << >>
  BY DEF Pushed
<1>2. early_comps = {}
  BY <1>1 DEF Agreement, AnswerInv, In
<1>3. Expected = {}
  BY DEF Agreement, AnswerInv
<1>4. QED
  BY <1>1, <1>2, <1>3 DEF Expected

\* One completion filed.
LEMMA DrainedOne ==
  ASSUME NEW c
  PROVE  /\ Drained(<< c >>) = [t \in Tag |-> IF c.tag = t THEN c ELSE expected[t]]
         /\ Drained(<< >>) = [t \in Tag |-> expected[t]]
<1>1. ASSUME NEW t \in Tag
      PROVE  LET K == {k \in DOMAIN << c >> : << c >>[k].tag = t}
             IN  (IF K = {} THEN expected[t] ELSE << c >>[Max(K)]) = IF c.tag = t THEN c ELSE expected[t]
  <2>1. DOMAIN << c >> = {1} /\ << c >>[1] = c
    OBVIOUS
  <2>2. CASE c.tag = t
    <3>1. {k \in DOMAIN << c >> : << c >>[k].tag = t} = {1}
      BY <2>1, <2>2
    <3>2. Max({1}) = 1
      BY MaxIs
    <3>3. QED
      BY <2>2, <3>1, <3>2
  <2>3. CASE c.tag # t
    <3>1. {k \in DOMAIN << c >> : << c >>[k].tag = t} = {}
      BY <2>1, <2>3
    <3>2. QED
      BY <2>3, <3>1
  <2>4. QED
    BY <2>2, <2>3
<1>2. QED
  BY <1>1 DEF Drained

\* An answer the golden model has pushed at once.
LEMMA AnsweredAtOnce ==
  ASSUME IInv, Agreement, fill_event = None, answers = << >>, fill_event' = None,
         NEW c \in Completion, answers' = << c >>, expected' = Drained(<< c >>),
         UNCHANGED << early_comps, mismatches, forgotten >>
  PROVE  AnswerInv'
<1>1. /\ early_comps = {} /\ mismatches = {} /\ forgotten = {}
      /\ \A t \in Tag : expected[t] = None
  BY NothingOnItsWay DEF Agreement, AnswerInv
<1>2. expected' = [t \in Tag |-> IF c.tag = t THEN c ELSE expected[t]] /\ c.tag \in Tag
  BY DrainedOne DEF Completion
<1>3. DOMAIN answers' = {1} /\ answers'[1] = c
  OBVIOUS
<1>4. Pushed' = << >>
  BY DEF Pushed
<1>5. \A t \in Expected' : t = c.tag
  BY <1>1, <1>2 DEF Expected
<1>6. expected'[c.tag] = c
  BY <1>2
<1>7. QED
  BY <1>1, <1>3, <1>4, <1>5, <1>6 DEF AnswerInv

\* A request that waits.
LEMMA AnsweredLater ==
  ASSUME IInv, Agreement, fill_event = None, answers = << >>, fill_event' = None,
         answers' = << >>, expected' = Drained(<< >>),
         UNCHANGED << early_comps, mismatches, forgotten >>
  PROVE  AnswerInv'
<1>1. /\ early_comps = {} /\ mismatches = {} /\ forgotten = {}
      /\ \A t \in Tag : expected[t] = None
  BY NothingOnItsWay DEF Agreement, AnswerInv
<1>2. expected' = [t \in Tag |-> expected[t]]
  BY DrainedOne
<1>3. Expected' = {}
  BY <1>1, <1>2 DEF Expected
<1>4. Pushed' = << >>
  BY DEF Pushed
<1>5. QED
  BY <1>1, <1>3, <1>4 DEF AnswerInv
-----------------------------------------------------------------------------
(* A request.                                                              *)

\* What write_req does with request r, when no other block of its set is fetched.
Takes(r) ==
    /\ r.proc_tag = issued + 1 /\ (r.we => r.data = issued + 1)
    /\ DutTakes(r) /\ l1d_model_request(r) /\ ~Overlaps(r)
    /\ expected' = Drained(RequestPushes(r))
    /\ issued' = issued + 1
    /\ forgotten' = IF Forgets(r) THEN forgotten \cup {r.proc_tag} ELSE forgotten
    /\ UNCHANGED << early_comps, mismatches >>

\* The block of a request is in the L1D exactly if the golden model finds it, in the
\* same way and with the values of memory.
LEMMA HitWaysAgree ==
  ASSUME IInv, Agreement, NEW b \in Block,
         \A c \in Block : Tracking(c) # {} /\ SetOf[c] = SetOf[b] => c = b
  PROVE  /\ \A w \in HitWays(b) : /\ HitWays(b) = {w} /\ DutWays(b) = {w} /\ w \in Way
                                  /\ data_array[w][SetOf[b]] = memory[b]
         /\ fill_event = None /\ DutWays(b) # {} => HitWays(b) # {}
         /\ fill_event = None /\ HitWays(b) # {} => Tracking(b) = {}
<1>1. SetOf[b] \in Set /\ None \notin Block
  BY GoldenAssumption, ScoreboardAssumption
<1>2. HeldInv /\ OneWayInv /\ VictimInv
  BY DEF Agreement, CacheInv
<1>3. \A w \in HitWays(b) : w \in Way /\ w \in DutWays(b) /\ data_array[w][SetOf[b]] = memory[b]
  BY <1>1, <1>2 DEF HitWays, DutWays, HeldInv
<1>4. \A w \in DutWays(b) : w \in Way /\ DutWays(b) = {w}
  <2>1. ASSUME NEW w \in DutWays(b)
        PROVE  w \in Way /\ dut_array[w][SetOf[b]] = b
    BY DEF DutWays
  <2>2. QED
    BY <1>1, <1>2, <2>1 DEF OneWayInv
<1>5. ASSUME NEW w \in DutWays(b), fill_event = None
      PROVE  w \in HitWays(b)
  <2>1. w \in Way /\ dut_array[w][SetOf[b]] = b
    BY <1>5 DEF DutWays
  <2>2. CASE tag_array[w][SetOf[b]].valid
    BY <1>1, <1>2, <2>1, <2>2 DEF HeldInv, HitWays
  <2>3. CASE ~tag_array[w][SetOf[b]].valid
    <3>1. PICK c \in Block : Tracking(c) # {} /\ SetOf[c] = SetOf[b]
      BY <1>1, <1>2, <2>1, <2>3 DEF HeldInv
    <3>2. Tracking(b) # {}
      BY <3>1
    <3>3. DutWays(b) = {}
      BY <1>2, <1>5, <3>2 DEF VictimInv, Filling
    <3>4. QED
      BY <1>5, <3>3
  <2>4. QED
    BY <2>2, <2>3
<1>6. fill_event = None /\ Tracking(b) # {} => DutWays(b) = {}
  BY <1>2 DEF VictimInv, Filling
<1>7. QED
  BY <1>3, <1>4, <1>5, <1>6

LEMMA Taken ==
  ASSUME IInv, Agreement, NEW r \in Request, Takes(r)
  PROVE  LET b == r.paddr.block
             i == r.paddr.word
         IN  /\ b \in Block /\ SetOf[b] \in Set /\ i \in Word /\ r.we \in BOOLEAN
             /\ fill_event = None /\ fill_event' = None /\ answers = << >>
             /\ \A c \in Block : ~Filling(c) /\ ~Filling(c)'
             /\ Fetched = {c \in Block : Tracking(c) # {}}
             /\ \A c \in Block : Tracking(c) # {} /\ SetOf[c] = SetOf[b] => c = b
             /\ Answer(r) \in Completion
             /\ dut_array' = dut_array /\ \A c \in Block : DutWays(c)' = DutWays(c)
<1> DEFINE b == r.paddr.block
           i == r.paddr.word
<1>1. b \in Block /\ SetOf[b] \in Set /\ i \in Word /\ r.we \in BOOLEAN
  BY GoldenAssumption DEF Request, Address
<1>2. fill_event = None /\ fill_event' = None /\ answers = << >> /\ dut_array' = dut_array
  BY DEF Takes, DutTakes
<1>3. \A c \in Block : ~Filling(c) /\ ~Filling(c)' /\ DutWays(c)' = DutWays(c)
  BY <1>2 DEF Filling, DutWays
<1>4. Fetched = {c \in Block : Tracking(c) # {}}
  BY <1>3, FetchedTracked DEF Agreement, CacheInv
<1>5. \A c \in Block : Tracking(c) # {} /\ SetOf[c] = SetOf[b] => c = b
  BY <1>4 DEF Takes, Overlaps
<1>6. Answer(r) \in Completion
  BY AnswerTypes, TypesSplit DEF IInv
<1>7. QED
  BY <1>1, <1>2, <1>3, <1>4, <1>5, <1>6

\* Memory takes the store.
LEMMA TakenMemory ==
  ASSUME IInv, Agreement, NEW r \in Request, Takes(r)
  PROVE  LET b == r.paddr.block
             i == r.paddr.word
         IN  /\ memory'[b] = IF r.we THEN [memory[b] EXCEPT ![i] = r.data] ELSE memory[b]
             /\ \A c \in Block : c # b => memory'[c] = memory[c]
             /\ memory \in [Block -> Line] /\ memory' \in [Block -> Line]
             /\ StoreToLegacy(r) = memory'
             /\ \A c \in Block, j \in Word : memory'[c][j] \in 0 .. issued'
             /\ \A c \in Block, j \in Word : dut_line'[c][j] \in 0 .. issued'
             /\ issued \in Nat /\ issued' = issued + 1
<1> DEFINE b == r.paddr.block
           i == r.paddr.word
<1>1. b \in Block /\ i \in Word /\ r.data \in Value /\ r.we \in BOOLEAN
  BY DEF Request, Address
<1>2. /\ memory' = IF r.we THEN [memory EXCEPT ![b][i] = r.data] ELSE memory
      /\ legacy_mem = memory /\ issued' = issued + 1 /\ (r.we => r.data = issued + 1)
  BY DEF Takes, DutTakes, Agreement, CacheInv, ValueInv
<1>3. memory \in [Block -> Line] /\ dut_line \in [Block -> Line] /\ issued \in Nat
  BY TypesSplit, ScoreboardAssumption DEF IInv, DutTypeOK
<1>4. \A c \in Block, j \in Word : memory[c][j] \in 0 .. issued /\ dut_line[c][j] \in 0 .. issued
  BY DEF Agreement, CacheInv, ValueInv
<1>5. /\ memory'[b] = IF r.we THEN [memory[b] EXCEPT ![i] = r.data] ELSE memory[b]
      /\ \A c \in Block : c # b => memory'[c] = memory[c]
  BY <1>1, <1>2, <1>3
<1>6. memory' \in [Block -> Line] /\ StoreToLegacy(r) = memory'
  <2>1. StoreToLegacy(r) = memory'
    BY <1>2 DEF StoreToLegacy
  <2>2. StoreToLegacy(r) \in [Block -> Line]
    BY StoreTypes, TypesSplit DEF IInv
  <2>3. QED
    BY <2>1, <2>2
<1>7. ASSUME NEW c \in Block, NEW j \in Word
      PROVE  memory'[c][j] \in 0 .. issued'
  <2>1. memory[c][j] \in 0 .. issued + 1 /\ issued + 1 \in 0 .. issued + 1
    BY <1>3, <1>4
  <2>2. memory[c] \in [Word -> Value]
    BY <1>3 DEF Line
  <2>3. memory'[c][j] = memory[c][j] \/ memory'[c][j] = issued + 1
    BY <1>1, <1>2, <1>5, <2>2
  <2>4. QED
    BY <1>2, <2>1, <2>3
<1>8. ASSUME NEW c \in Block, NEW j \in Word
      PROVE  dut_line'[c][j] \in 0 .. issued'
  <2>1. memory[c][j] \in 0 .. issued + 1 /\ dut_line[c][j] \in 0 .. issued + 1
    BY <1>3, <1>4
  <2>2. dut_line' = dut_line \/ dut_line' = [dut_line EXCEPT ![b] = memory[b]]
    BY DEF Takes, DutTakes
  <2>3. dut_line'[c] = dut_line[c] \/ dut_line'[c] = memory[c]
    BY <1>1, <1>3, <2>2
  <2>4. QED
    BY <1>2, <2>1, <2>3
<1>9. QED
  BY <1>2, <1>3, <1>5, <1>6, <1>7, <1>8

\* While nothing is installed a block stays in its way.
LEMMA OneWayStays ==
  ASSUME IInv, Agreement, dut_array' = dut_array
  PROVE  OneWayInv'
<1>1. \A v \in Way, u \in Set : dut_array[v][u] # None => dut_array[v][u] \in Block
  BY TypesSplit DEF IInv, DutTypeOK
<1>2. \A b \in Block : DutWays(b)' = DutWays(b)
  BY DEF DutWays
<1>3. OneWayInv
  BY DEF Agreement, CacheInv
<1>4. QED
  BY <1>1, <1>2, <1>3 DEF OneWayInv

\* A request that hits.
LEMMA HitAgrees ==
  ASSUME IInv, Agreement, NEW r \in Request, Takes(r), HitWays(r.paddr.block) # {}
  PROVE  Agreement'
<1> DEFINE b == r.paddr.block
           i == r.paddr.word
           s == SetOf[b]
           w == Min(HitWays(b))
<1>1. /\ b \in Block /\ s \in Set /\ i \in Word /\ r.we \in BOOLEAN
      /\ fill_event = None /\ fill_event' = None /\ answers = << >>
      /\ \A c \in Block : ~Filling(c) /\ ~Filling(c)'
      /\ Fetched = {c \in Block : Tracking(c) # {}}
      /\ \A c \in Block : Tracking(c) # {} /\ SetOf[c] = s => c = b
      /\ Answer(r) \in Completion
      /\ dut_array' = dut_array /\ \A c \in Block : DutWays(c)' = DutWays(c)
  BY Taken
<1>2. /\ w \in Way /\ HitWays(b) = {w} /\ DutWays(b) = {w} /\ Min(DutWays(b)) = w
      /\ data_array[w][s] = memory[b] /\ Tracking(b) = {}
  <2>1. w \in HitWays(b)
    BY <1>1, Chosen
  <2>2. w \in Way /\ HitWays(b) = {w} /\ DutWays(b) = {w} /\ data_array[w][s] = memory[b]
    BY <1>1, <2>1, HitWaysAgree
  <2>3. Min(DutWays(b)) = w
    BY <2>2
  <2>4. Tracking(b) = {}
    BY <1>1, HitWaysAgree
  <2>5. QED
    BY <2>2, <2>3, <2>4
<1>3. Hit(r)
  BY DEF Takes, l1d_model_request, Forward, Forwards, Secondary, SecondaryMissOf, Primary,
         NoFreeMshr, PrimaryMissOf
<1>4. /\ plru_bits' = [plru_bits EXCEPT ![s] = plru_update(@, w)]
      /\ data_array' = IF r.we THEN [data_array EXCEPT ![w][s][i] = r.data] ELSE data_array
      /\ tag_array' = IF r.we THEN [tag_array EXCEPT ![w][s].dirty = TRUE] ELSE tag_array
      /\ legacy_mem' = StoreToLegacy(r) /\ mshr' = mshr
  BY <1>3 DEF Hit
<1>5. /\ dut_plru' = [dut_plru EXCEPT ![s] = plru_update(@, w)]
      /\ answers' = Append(answers, Answer(r))
      /\ UNCHANGED << dut_mshr, dut_line >>
  BY <1>2 DEF Takes, DutTakes
<1>6. RequestPushes(r) = << Answer(r) >> /\ forgotten' = forgotten
  <2>1. HitPushes(r) = << Answer(r) >>
    BY <1>2 DEF HitPushes, Answer
  <2>2. ~Forgets(r)
    BY DEF Forgets, PrimaryMissOf, SecondaryMissOf
  <2>3. QED
    BY <2>1, <2>2 DEF RequestPushes, Takes
<1>7. /\ memory'[b] = IF r.we THEN [memory[b] EXCEPT ![i] = r.data] ELSE memory[b]
      /\ \A c \in Block : c # b => memory'[c] = memory[c]
      /\ legacy_mem' = memory'
      /\ \A c \in Block, j \in Word : memory'[c][j] \in 0 .. issued' /\ dut_line'[c][j] \in 0 .. issued'
  BY <1>4, TakenMemory
<1>8. \A c \in Block : Tracking(c)' = Tracking(c)
  BY <1>4 DEF Tracking, Active
<1>9. AnswerInv'
  BY <1>1, <1>5, <1>6, AnsweredAtOnce DEF Takes
<1>10. /\ tag_array \in TagArray /\ data_array \in [Way -> [Set -> Line]]
       /\ plru_bits \in [Set -> SUBSET Way] /\ dut_plru \in [Set -> SUBSET Way]
  BY TypesSplit, NamedTypes DEF IInv, GoldenTypeOK, DutTypeOK
<1>11. \A v \in Way, u \in Set : /\ tag_array'[v][u].valid = tag_array[v][u].valid
                                 /\ tag_array'[v][u].tag = tag_array[v][u].tag
  <2>1. CASE ~r.we
    BY <1>4, <2>1
  <2>2. CASE r.we
    <3>1. /\ tag_array'[w][s] = [tag_array[w][s] EXCEPT !.dirty = TRUE]
          /\ \A v \in Way, u \in Set : v # w \/ u # s => tag_array'[v][u] = tag_array[v][u]
      BY <1>1, <1>2, <1>4, <1>10, <2>2 DEF TagArray
    <3>2. tag_array[w][s] \in TagEntry
      BY <1>1, <1>2, <1>10 DEF TagArray
    <3>3. /\ tag_array'[w][s].valid = tag_array[w][s].valid
          /\ tag_array'[w][s].tag = tag_array[w][s].tag
      BY <3>1, <3>2 DEF TagEntry
    <3>4. QED
      BY <3>1, <3>3
  <2>3. QED
    BY <2>1, <2>2
<1>12. /\ data_array'[w][s] = memory'[b]
       /\ \A v \in Way, u \in Set : v # w \/ u # s => data_array'[v][u] = data_array[v][u]
  BY <1>1, <1>2, <1>4, <1>7, <1>10
<1> HIDE DEF b, i, s, w
<1>13. WaitInv'
  BY <1>1, <1>4, <1>5, <1>8 DEF Agreement, CacheInv, WaitInv
<1>14. ValueInv'
  BY <1>2, <1>4, <1>5, <1>7, <1>8 DEF Agreement, CacheInv, ValueInv
<1>15. VictimInv'
  <2>1. ASSUME NEW c \in Block, NEW m \in Tracking(c)
        PROVE  SetOf[c] # s /\ SetOf[c] \in Set /\ plru_bits'[SetOf[c]] = plru_bits[SetOf[c]]
               /\ m \in Mshr /\ mshr[m].victim_way \in Way
    <3>1. SetOf[c] \in Set /\ SetOf[c] # s
      BY <1>1, <1>2, GoldenAssumption
    <3>2. m \in Mshr /\ mshr[m].victim_way \in Way
      BY MshrTypes, TypesSplit DEF IInv, Tracking
    <3>3. QED
      BY <1>4, <1>10, <3>1, <3>2
  <2>2. QED
    BY <1>1, <1>4, <1>8, <1>11, <2>1 DEF Agreement, CacheInv, VictimInv
<1>16. HeldInv'
  <2>1. ASSUME NEW v \in Way, NEW u \in Set, tag_array[v][u].valid
        PROVE  data_array'[v][u] = memory'[tag_array[v][u].tag]
    <3>1. /\ dut_array[v][u] = tag_array[v][u].tag /\ tag_array[v][u].tag \in Block
          /\ data_array[v][u] = memory[tag_array[v][u].tag]
      BY <1>10, <2>1 DEF Agreement, CacheInv, HeldInv, TagArray, TagEntry
    <3>2. CASE tag_array[v][u].tag = b
      <4>1. None \notin Block
        BY ScoreboardAssumption
      <4>2. u = s /\ v = w
        BY <1>2, <3>1, <3>2, <4>1 DEF Agreement, CacheInv, OneWayInv, s
      <4>3. QED
        BY <1>12, <3>2, <4>2
    <3>3. CASE tag_array[v][u].tag # b
      <4>1. v # w \/ u # s
        BY <1>2, <3>3 DEF HitWays, s
      <4>2. QED
        BY <1>7, <1>12, <3>1, <3>3, <4>1
    <3>4. QED
      BY <3>2, <3>3
  <2>2. QED
    BY <1>1, <1>4, <1>8, <1>11, <2>1 DEF Agreement, CacheInv, HeldInv
<1>17. OneWayInv'
  BY <1>1, OneWayStays
<1>18. PlruInv'
  BY <1>1, <1>4, <1>5, <1>10 DEF Agreement, CacheInv, PlruInv
<1>19. QED
  BY <1>9, <1>13, <1>14, <1>15, <1>16, <1>17, <1>18 DEF Agreement, CacheInv

\* The L1D forwards what the golden model forwards, and answers the same.
LEMMA ForwardAlike ==
  ASSUME IInv, Agreement, NEW r \in Request, Takes(r), HitWays(r.paddr.block) = {},
         NEW m \in Tracking(r.paddr.block)
  PROVE  LET b == r.paddr.block
             i == r.paddr.word
             q == mshr[m].entries
         IN  /\ m \in Mshr /\ q \in Seq(Request) /\ Min(Tracking(b)) = m /\ q # << >>
             /\ DutWays(b) = {} /\ b \in Fetched /\ dut_mshr[b] = Pushes(q, dut_line[b])
             /\ Len(dut_mshr[b]) = Len(q) /\ memory[b] = PlayedBack(q, dut_line[b])
             /\ DutForwards(r) <=> Forwards(r)
             /\ Forwards(r) => AfterStores(q, i, 0) = memory[b][i]
             /\ ~Forwards(r) => LastPush(q, r, dut_line[b]) = Answer(r)
<1> DEFINE b == r.paddr.block
           i == r.paddr.word
           q == mshr[m].entries
<1>1. /\ b \in Block /\ i \in Word /\ fill_event = None
      /\ Fetched = {c \in Block : Tracking(c) # {}} /\ ~Filling(b)
      /\ \A c \in Block : Tracking(c) # {} /\ SetOf[c] = SetOf[b] => c = b
  BY Taken
<1>2. /\ m \in Mshr /\ q \in Seq(Request) /\ q # << >> /\ Min(Tracking(b)) = m
      /\ dut_line[b] \in Line /\ memory[b] \in Line
  <2>1. GoldenTypeOK /\ OneBlockPerMshr /\ memory[b] \in Line /\ dut_line[b] \in Line
    BY <1>1, TypesSplit DEF IInv, DutTypeOK
  <2>2. QED
    BY <1>1, <2>1, TracksOne
<1>3. DutWays(b) = {} /\ b \in Fetched
  BY <1>1, HitWaysAgree
<1>4. /\ dut_mshr[b] = Pushes(q, dut_line[b]) /\ memory[b] = PlayedBack(q, dut_line[b])
      /\ \A k \in DOMAIN q : q[k].we => q[k].data \in Nat /\ dut_line[b][i] < q[k].data
      /\ dut_line[b][i] \in 0 .. issued
  BY <1>1 DEF Agreement, CacheInv, WaitInv, ValueInv
<1>5. Len(dut_mshr[b]) = Len(q)
  BY <1>1, <1>2, <1>4, PushesWait
<1>6. memory[b][i] = AfterStores(q, i, dut_line[b][i])
  BY <1>1, <1>4 DEF PlayedBack
<1>7. Forwards(r) <=> ~r.we /\ StoresTo(q, i) # {}
  BY <1>2 DEF Forwards, SecondaryMissOf
<1>8. DutForwards(r) <=> ~r.we /\ memory[b][i] # dut_line[b][i]
  BY DEF DutForwards
<1>9. issued \in Nat
  BY TypesSplit, ScoreboardAssumption DEF IInv
<1> HIDE DEF b, i, q
<1>10. StoresTo(q, i) = {} => memory[b][i] = dut_line[b][i]
  BY <1>2, <1>6, StoresOrOld
<1>11. StoresTo(q, i) # {} => memory[b][i] # dut_line[b][i] /\ AfterStores(q, i, 0) = memory[b][i]
  <2>1. ASSUME StoresTo(q, i) # {}
        PROVE  \E k \in DOMAIN q : /\ q[k].we /\ AfterStores(q, i, 0) = q[k].data
                                   /\ AfterStores(q, i, dut_line[b][i]) = q[k].data
    BY <1>2, <2>1, StoresOrOld
  <2>2. QED
    BY <1>4, <1>6, <1>9, <2>1
<1>12. ~Forwards(r) => LastPush(q, r, dut_line[b]) = Answer(r)
  BY <1>6, <1>7, <1>10 DEF LastPush, Answer, b, i
<1>13. QED
  BY <1>2, <1>3, <1>4, <1>5, <1>7, <1>8, <1>10, <1>11, <1>12 DEF b, i, q

\* A load that is forwarded.
LEMMA ForwardAgrees ==
  ASSUME IInv, Agreement, NEW r \in Request, Takes(r), HitWays(r.paddr.block) = {},
         Forwards(r)
  PROVE  Agreement'
<1> DEFINE b == r.paddr.block
<1>1. /\ b \in Block /\ fill_event = None /\ fill_event' = None /\ answers = << >>
      /\ Answer(r) \in Completion /\ \A c \in Block : DutWays(c)' = DutWays(c)
  BY Taken
<1>2. PICK m \in Tracking(b) : TRUE
  BY DEF Forwards, SecondaryMissOf
<1>3. /\ Min(Tracking(b)) = m /\ DutWays(b) = {} /\ b \in Fetched /\ DutForwards(r)
      /\ AfterStores(mshr[m].entries, r.paddr.word, 0) = memory[b][r.paddr.word]
  BY ForwardAlike
<1>4. r.we = FALSE
  BY DEF Forwards, Request
<1>5. UNCHANGED goldenVars
  BY <1>3 DEF Takes, l1d_model_request, Hit, Forward, Secondary, Primary, NoFreeMshr, PrimaryMissOf
<1>6. /\ answers' = Append(answers, Answer(r))
      /\ UNCHANGED << dut_plru, dut_mshr, dut_line, dut_array, memory >>
  BY <1>3, <1>4 DEF Takes, DutTakes
<1>7. RequestPushes(r) = << Answer(r) >> /\ forgotten' = forgotten
  <2>1. ForwardPushes(r) = << Answer(r) >>
    BY <1>3, <1>4 DEF ForwardPushes, Answer
  <2>2. ~Forgets(r)
    BY DEF Forgets, PrimaryMissOf, Forwards, SecondaryMissOf
  <2>3. QED
    BY <2>1, <2>2 DEF RequestPushes, Takes
<1>8. AnswerInv'
  BY <1>1, <1>6, <1>7, AnsweredAtOnce DEF Takes
<1>9. /\ \A c \in Block : Tracking(c)' = Tracking(c)
      /\ \A c \in Block : Filling(c)' = Filling(c)
  BY <1>1, <1>5 DEF goldenVars, Tracking, Active, Filling
<1>10. WaitInv'
  BY <1>1, <1>5, <1>6, <1>9 DEF Agreement, CacheInv, WaitInv, goldenVars
<1>11. ValueInv'
  <2>1. \A c \in Block, j \in Word : memory'[c][j] \in 0 .. issued' /\ dut_line'[c][j] \in 0 .. issued'
    BY TakenMemory
  <2>2. QED
    BY <1>5, <1>6, <1>9, <2>1 DEF Agreement, CacheInv, ValueInv, goldenVars
<1>12. VictimInv'
  BY <1>1, <1>5, <1>9 DEF Agreement, CacheInv, VictimInv, goldenVars
<1>13. HeldInv'
  BY <1>5, <1>6, <1>9 DEF Agreement, CacheInv, HeldInv, goldenVars
<1>14. OneWayInv'
  BY <1>6, OneWayStays
<1>15. PlruInv'
  BY <1>1, <1>5, <1>6 DEF Agreement, CacheInv, PlruInv, goldenVars
<1>16. QED
  BY <1>8, <1>10, <1>11, <1>12, <1>13, <1>14, <1>15 DEF Agreement, CacheInv

\* A request that waits behind another for its block.
LEMMA SecondaryAgrees ==
  ASSUME IInv, Agreement, NEW r \in Request, Takes(r), HitWays(r.paddr.block) = {},
         Tracking(r.paddr.block) # {}, ~Forwards(r)
  PROVE  Agreement'
<1> DEFINE b == r.paddr.block
           i == r.paddr.word
<1>1. /\ b \in Block /\ i \in Word /\ fill_event = None /\ fill_event' = None /\ answers = << >>
      /\ \A c \in Block : ~Filling(c) /\ ~Filling(c)'
      /\ dut_array' = dut_array /\ \A c \in Block : DutWays(c)' = DutWays(c)
  BY Taken
<1>2. PICK m \in Tracking(b) : TRUE
  OBVIOUS
<1> DEFINE q == mshr[m].entries
<1>3. /\ m \in Mshr /\ q \in Seq(Request) /\ q # << >> /\ Min(Tracking(b)) = m
      /\ DutWays(b) = {} /\ b \in Fetched /\ ~DutForwards(r)
      /\ dut_mshr[b] = Pushes(q, dut_line[b]) /\ Len(dut_mshr[b]) = Len(q)
      /\ memory[b] = PlayedBack(q, dut_line[b]) /\ LastPush(q, r, dut_line[b]) = Answer(r)
  BY ForwardAlike
<1>4. /\ Len(dut_mshr[b]) < MSHR_QUEUE_SIZE
      /\ dut_mshr' = [dut_mshr EXCEPT ![b] = Append(@, Answer(r))]
      /\ UNCHANGED << answers, dut_plru, dut_line >>
  BY <1>3 DEF Takes, DutTakes
<1>5. HasRoom(m)
  BY <1>3, <1>4 DEF HasRoom
<1>6. /\ mshr' = [mshr EXCEPT ![m].entries = Append(@, r)]
      /\ legacy_mem' = StoreToLegacy(r)
      /\ UNCHANGED << tag_array, data_array, plru_bits >>
  <2>1. Secondary(r)
    BY DEF Takes, l1d_model_request, Hit, Forward, Primary, NoFreeMshr, PrimaryMissOf
  <2>2. QED
    BY <1>3, <1>5, <2>1 DEF Secondary
<1>7. RequestPushes(r) = << >> /\ forgotten' = forgotten
  <2>1. ~Forgets(r)
    BY <1>3, <1>5 DEF Forgets, PrimaryMissOf
  <2>2. QED
    BY <2>1 DEF RequestPushes, Takes
<1>8. AnswerInv'
  BY <1>1, <1>4, <1>7, AnsweredLater DEF Takes
<1>9. /\ memory'[b] = IF r.we THEN [memory[b] EXCEPT ![i] = r.data] ELSE memory[b]
      /\ \A c \in Block : c # b => memory'[c] = memory[c]
      /\ legacy_mem' = memory'
      /\ \A c \in Block, j \in Word : memory'[c][j] \in 0 .. issued' /\ dut_line'[c][j] \in 0 .. issued'
      /\ issued \in Nat
  BY <1>6, TakenMemory
<1>10. /\ mshr \in MshrTable /\ dut_mshr \in [Block -> Seq(Completion)]
       /\ tag_array \in TagArray /\ GoldenTypeOK /\ OneBlockPerMshr /\ dut_line[b] \in Line
  BY <1>1, TypesSplit, NamedTypes DEF IInv, GoldenTypeOK, DutTypeOK
\* Every MSHR tracks what it tracked.
<1>11. /\ mshr'[m].entries = Append(q, r)
       /\ \A n \in Mshr : mshr'[n].victim_way = mshr[n].victim_way
       /\ \A n \in Mshr : n # m => mshr'[n].entries = mshr[n].entries
  BY <1>3, <1>6, <1>10 DEF MshrTable, MshrEntry
<1> HIDE DEF b, i, q
<1>12. \A c \in Block : Tracking(c)' = Tracking(c)
  <2>1. Append(q, r) # << >> /\ Append(q, r)[1] = q[1]
    <3>1. Len(q) \in Nat \ {0}
      BY <1>3, EmptySeq
    <3>2. Len(Append(q, r)) = Len(q) + 1 /\ \A k \in 1 .. Len(q) : Append(q, r)[k] = q[k]
      BY <1>3, AppendProperties
    <3>3. QED
      BY <3>1, <3>2
  <2>2. \A n \in Mshr : /\ (mshr'[n].entries # << >>) = (mshr[n].entries # << >>)
                        /\ mshr'[n].entries[1] = mshr[n].entries[1]
    BY <1>3, <1>11, <2>1 DEF q
  <2>3. QED
    BY <2>2 DEF Tracking, Active
<1>13. \A c \in Block : \A n \in Tracking(c) : c # b => n \in Mshr /\ n # m
  <2>1. Tracking(b) = {m}
    BY <1>1, <1>2, <1>10, TracksOne DEF b
  <2>2. \A c \in Block : \A n \in Tracking(c) : n \in Tracking(b) => c = b
    BY DEF Tracking
  <2>3. QED
    BY <1>2, <2>2 DEF Tracking
<1>14. Tracking(b) = {m}
  BY <1>1, <1>2, <1>10, TracksOne DEF b
<1>15. WaitInv'
  <2>1. dut_mshr'[b] = Pushes(Append(q, r), dut_line[b])
    BY <1>1, <1>3, <1>4, <1>10, PushesAppend
  <2>2. \A c \in Block : c # b => dut_mshr'[c] = dut_mshr[c]
    BY <1>4, <1>10
  <2>3. ASSUME NEW c \in Block, NEW n \in Tracking(c)
        PROVE  dut_mshr'[c] = Pushes(mshr'[n].entries, dut_line'[c])
    <3>1. CASE c = b
      BY <1>4, <1>11, <1>14, <2>1, <2>3, <3>1
    <3>2. CASE c # b
      <4>1. mshr'[n].entries = mshr[n].entries
        BY <1>11, <1>13, <2>3, <3>2
      <4>2. dut_mshr[c] = Pushes(mshr[n].entries, dut_line[c])
        BY <1>1, <2>3 DEF Agreement, CacheInv, WaitInv
      <4>3. QED
        BY <1>4, <2>2, <3>2, <4>1, <4>2
    <3>3. QED
      BY <3>1, <3>2
  <2>4. \A c \in Block : Tracking(c) = {} => dut_mshr'[c] = << >>
    BY <1>2, <2>2 DEF Agreement, CacheInv, WaitInv
  <2>5. QED
    BY <1>1, <1>12, <2>3, <2>4 DEF WaitInv
<1>16. ValueInv'
  <2>1. memory'[b] = PlayedBack(Append(q, r), dut_line[b])
    BY <1>3, <1>9, <1>10, PlayedBackLaws DEF b, i
  <2>2. ASSUME NEW k \in DOMAIN Append(q, r), Append(q, r)[k].we
        PROVE  /\ Append(q, r)[k].data \in Nat
               /\ \A j \in Word : dut_line[b][j] < Append(q, r)[k].data
    <3>1. (k \in DOMAIN q /\ Append(q, r)[k] = q[k]) \/ Append(q, r)[k] = r
      BY <1>3, AppendProperties
    <3>2. CASE k \in DOMAIN q /\ Append(q, r)[k] = q[k]
      BY <1>1, <1>2, <2>2, <3>2 DEF Agreement, CacheInv, ValueInv, q
    <3>3. CASE Append(q, r)[k] = r
      <4>1. r.data = issued + 1
        BY <2>2, <3>3 DEF Takes
      <4>2. \A j \in Word : dut_line[b][j] \in 0 .. issued
        BY <1>1 DEF Agreement, CacheInv, ValueInv
      <4>3. QED
        BY <1>9, <3>3, <4>1, <4>2
    <3>4. QED
      BY <3>1, <3>2, <3>3
  <2>3. ASSUME NEW c \in Block, NEW n \in Tracking(c)
        PROVE  /\ memory'[c] = PlayedBack(mshr'[n].entries, dut_line[c])
               /\ \A k \in DOMAIN mshr'[n].entries : mshr'[n].entries[k].we =>
                      /\ mshr'[n].entries[k].data \in Nat
                      /\ \A j \in Word : dut_line[c][j] < mshr'[n].entries[k].data
    <3>1. CASE c = b
      BY <1>11, <1>14, <2>1, <2>2, <2>3, <3>1
    <3>2. CASE c # b
      <4>1. mshr'[n].entries = mshr[n].entries /\ memory'[c] = memory[c]
        BY <1>9, <1>11, <1>13, <2>3, <3>2
      <4>2. QED
        BY <2>3, <4>1 DEF Agreement, CacheInv, ValueInv
    <3>3. QED
      BY <3>1, <3>2
  <2>4. QED
    BY <1>4, <1>9, <1>12, <2>3 DEF ValueInv
<1>17. \A c \in Block : \A n \in Tracking(c) : n \in Mshr
  BY DEF Tracking
<1>18. VictimInv'
  BY <1>1, <1>6, <1>11, <1>12, <1>17 DEF Agreement, CacheInv, VictimInv
<1>19. HeldInv'
  <2>1. ASSUME NEW v \in Way, NEW u \in Set, tag_array[v][u].valid
        PROVE  memory'[tag_array[v][u].tag] = memory[tag_array[v][u].tag]
    <3>1. tag_array[v][u].tag \in Block /\ dut_array[v][u] = tag_array[v][u].tag
      BY <1>10, <2>1 DEF Agreement, CacheInv, HeldInv, TagArray, TagEntry
    <3>2. None \notin Block
      BY ScoreboardAssumption
    <3>3. SetOf[tag_array[v][u].tag] = u
      BY <3>1, <3>2 DEF Agreement, CacheInv, OneWayInv
    <3>4. tag_array[v][u].tag # b
      BY <2>1, <3>3 DEF HitWays, b
    <3>5. QED
      BY <1>9, <3>1, <3>4
  <2>2. QED
    BY <1>1, <1>6, <1>11, <1>12, <1>17, <2>1 DEF Agreement, CacheInv, HeldInv
<1>20. OneWayInv'
  BY <1>1, OneWayStays
<1>21. PlruInv'
  BY <1>1, <1>4, <1>6 DEF Agreement, CacheInv, PlruInv
<1>22. QED
  BY <1>8, <1>15, <1>16, <1>18, <1>19, <1>20, <1>21 DEF Agreement, CacheInv

\* The L1D takes a request only while the golden model has a free MSHR: each of its
\* own that is not free fetches a block of its own.
LEMMA FreeWhenTaken ==
  ASSUME IInv, Agreement, NEW r \in Request, Takes(r)
  PROVE  FreeMshrs # {}
<1> SUFFICES ASSUME FreeMshrs = {} PROVE FALSE
  OBVIOUS
<1> DEFINE BlockOf(m) == mshr[m].entries[1].paddr.block
           f == [m \in Mshr |-> BlockOf(m)]
<1>1. Fetched = {b \in Block : Tracking(b) # {}} /\ Cardinality(Fetched) < MSHR_COUNT
  BY Taken DEF Takes, DutTakes
<1>2. \A m \in Mshr : mshr[m].entries # << >> /\ 1 \in DOMAIN mshr[m].entries
  <2>1. \A m \in Mshr : mshr[m].entries \in Seq(Request) /\ mshr[m].entries # << >>
    BY MshrTypes, TypesSplit DEF IInv, FreeMshrs, Active
  <2>2. QED
    BY <2>1, EmptySeq
<1>3. \A m \in Mshr : BlockOf(m) \in Block /\ m \in Tracking(BlockOf(m))
  <2>1. \A m \in Mshr : mshr[m].entries[1] \in Request
    BY <1>2, EntryTags, TypesSplit DEF IInv
  <2>2. QED
    BY <1>2, <2>1 DEF Request, Address, Tracking, Active
<1>4. \A m, n \in Mshr : BlockOf(m) = BlockOf(n) => m = n
  BY <1>2 DEF IInv, OneBlockPerMshr
<1>5. \A b \in Fetched : \E m \in Mshr : b = BlockOf(m)
  BY <1>1 DEF Tracking
<1> HIDE DEF BlockOf
<1>6. f \in [Mshr -> Fetched]
  BY <1>1, <1>3
<1>7. f \in Surjection(Mshr, Fetched)
  BY <1>5, <1>6 DEF Surjection
<1>8. f \in Injection(Mshr, Fetched)
  BY <1>4, <1>6 DEF Injection, IsInjective
<1>9. IsFiniteSet(Mshr) /\ Cardinality(Mshr) = MSHR_COUNT
  BY FS_Interval, GoldenAssumption DEF Mshr
<1> HIDE DEF f
<1>10. Cardinality(Fetched) = MSHR_COUNT
  BY <1>7, <1>8, <1>9, FS_Surjection
<1>11. QED
  BY <1>1, <1>10, GoldenAssumption

\* A request that makes the L1D fetch its block.
LEMMA PrimaryAgrees ==
  ASSUME IInv, Agreement, NEW r \in Request, Takes(r), HitWays(r.paddr.block) = {},
         Tracking(r.paddr.block) = {}
  PROVE  Agreement'
<1> DEFINE b == r.paddr.block
           i == r.paddr.word
           s == SetOf[b]
           w == plru_victim(plru_bits[s])
           m == Min(FreeMshrs)
<1>1. /\ b \in Block /\ s \in Set /\ i \in Word /\ r.we \in BOOLEAN
      /\ fill_event = None /\ fill_event' = None /\ answers = << >>
      /\ \A c \in Block : ~Filling(c) /\ ~Filling(c)'
      /\ Fetched = {c \in Block : Tracking(c) # {}}
      /\ \A c \in Block : Tracking(c) # {} /\ SetOf[c] = s => c = b
      /\ dut_array' = dut_array /\ \A c \in Block : DutWays(c)' = DutWays(c)
  BY Taken
<1>2. DutWays(b) = {} /\ b \notin Fetched
  BY <1>1, HitWaysAgree
<1>3. /\ dut_mshr' = [dut_mshr EXCEPT ![b] = << Answer(r) >>]
      /\ dut_line' = [dut_line EXCEPT ![b] = memory[b]]
      /\ UNCHANGED << answers, dut_plru >>
  BY <1>2 DEF Takes, DutTakes
<1>4. FreeMshrs # {} /\ m \in Mshr /\ mshr[m].entries = << >> /\ w \in Way
  BY FreeWhenTaken, Chosen, PlruWays DEF FreeMshrs, Active
<1>5. Primary(r)
  BY <1>4 DEF Takes, l1d_model_request, Hit, Forward, Forwards, Secondary, SecondaryMissOf, NoFreeMshr
<1>6. /\ mshr' = [mshr EXCEPT ![m] = [entries |-> << r >>, victim_way |-> w]]
      /\ legacy_mem' = IF tag_array[w][s].valid /\ tag_array[w][s].dirty
                       THEN [StoreToLegacy(r) EXCEPT ![tag_array[w][s].tag] = data_array[w][s]]
                       ELSE StoreToLegacy(r)
      /\ tag_array' = [tag_array EXCEPT ![w][s].valid = FALSE]
      /\ UNCHANGED << data_array, plru_bits >>
  BY <1>5 DEF Primary
<1>7. RequestPushes(r) = << >> /\ forgotten' = forgotten
  <2>1. ~Forgets(r) /\ ~Forwards(r)
    BY <1>4 DEF Forgets, Forwards, SecondaryMissOf
  <2>2. QED
    BY <2>1 DEF RequestPushes, Takes
<1>8. AnswerInv'
  BY <1>1, <1>3, <1>7, AnsweredLater DEF Takes
<1>9. /\ memory'[b] = IF r.we THEN [memory[b] EXCEPT ![i] = r.data] ELSE memory[b]
      /\ \A c \in Block : c # b => memory'[c] = memory[c]
      /\ memory \in [Block -> Line] /\ memory' \in [Block -> Line]
      /\ StoreToLegacy(r) = memory'
      /\ \A c \in Block, j \in Word : memory'[c][j] \in 0 .. issued' /\ dut_line'[c][j] \in 0 .. issued'
      /\ issued \in Nat
  BY TakenMemory
<1>10. /\ mshr \in MshrTable /\ dut_mshr \in [Block -> Seq(Completion)]
       /\ tag_array \in TagArray /\ dut_line \in [Block -> Line]
       /\ None \notin Block
  BY TypesSplit, NamedTypes, ScoreboardAssumption DEF IInv, GoldenTypeOK, DutTypeOK
<1> HIDE DEF b, i, s, w, m
\* A block in a way of the golden model is another block, and has memory's values.
<1>11. ASSUME NEW v \in Way, NEW u \in Set, tag_array[v][u].valid
       PROVE  /\ tag_array[v][u].tag \in Block /\ tag_array[v][u].tag # b
              /\ data_array[v][u] = memory'[tag_array[v][u].tag]
  <2>1. /\ tag_array[v][u].tag \in Block /\ dut_array[v][u] = tag_array[v][u].tag
        /\ data_array[v][u] = memory[tag_array[v][u].tag]
    BY <1>10, <1>11 DEF Agreement, CacheInv, HeldInv, TagArray, TagEntry
  <2>2. SetOf[tag_array[v][u].tag] = u
    BY <1>10, <2>1 DEF Agreement, CacheInv, OneWayInv
  <2>3. tag_array[v][u].tag # b
    BY <1>11, <2>2 DEF HitWays, b
  <2>4. QED
    BY <1>9, <2>1, <2>3
\* What is dirty in the way given up is what the flat map holds.
<1>12. legacy_mem' = memory'
  <2>1. CASE tag_array[w][s].valid /\ tag_array[w][s].dirty
    <3>1. legacy_mem' = [memory' EXCEPT ![tag_array[w][s].tag] = memory'[tag_array[w][s].tag]]
      BY <1>1, <1>4, <1>6, <1>9, <1>11, <2>1
    <3>2. QED
      BY <1>9, <3>1
  <2>2. CASE ~(tag_array[w][s].valid /\ tag_array[w][s].dirty)
    BY <1>6, <1>9, <2>2
  <2>3. QED
    BY <2>1, <2>2
<1>13. /\ mshr'[m].entries = << r >> /\ mshr'[m].victim_way = w
       /\ \A n \in Mshr : n # m => mshr'[n] = mshr[n]
  BY <1>4, <1>6, <1>10 DEF MshrTable
<1>14. /\ Tracking(b)' = {m}
       /\ \A c \in Block : c # b => Tracking(c)' = Tracking(c)
       /\ \A c \in Block : \A n \in Tracking(c) : n \in Mshr /\ n # m
  <2>1. << r >> # << >> /\ << r >>[1].paddr.block = b
    BY DEF b
  <2>2. \A n \in Mshr : ~(mshr[n].entries # << >> /\ mshr[n].entries[1].paddr.block = b)
    BY DEF Tracking, Active, b
  <2>3. QED
    BY <1>4, <1>13, <2>1, <2>2 DEF Tracking, Active
<1>15. \A c \in Block : c # b => dut_mshr'[c] = dut_mshr[c] /\ dut_line'[c] = dut_line[c]
  BY <1>3, <1>10
<1>16. dut_mshr'[b] = << Answer(r) >> /\ dut_line'[b] = memory[b] /\ memory[b] \in Line
  BY <1>1, <1>3, <1>9, <1>10
<1>17. << >> \in Seq(Request) /\ Append(<< >>, r) = << r >>
  OBVIOUS
<1>18. WaitInv'
  <2>1. Pushes(<< r >>, memory[b]) = << Answer(r) >>
    <3>1. StoresTo(<< >>, i) = {}
      BY DEF StoresTo
    <3>2. LastPush(<< >>, r, memory[b]) = Answer(r)
      BY <3>1 DEF LastPush, Answer, AfterStores, b, i
    <3>3. Pushes(<< >>, memory[b]) = << >>
      BY DEF Pushes
    <3>4. Pushes(Append(<< >>, r), memory[b])
            = Append(Pushes(<< >>, memory[b]), LastPush(<< >>, r, memory[b]))
      BY <1>17, PushesAppend
    <3>5. Append(<< >>, Answer(r)) = << Answer(r) >>
      OBVIOUS
    <3>6. QED
      BY <1>17, <3>2, <3>3, <3>4, <3>5
  <2>2. ASSUME NEW c \in Block, NEW n \in Tracking(c)'
        PROVE  dut_mshr'[c] = Pushes(mshr'[n].entries, dut_line'[c])
    <3>1. CASE c = b
      BY <1>13, <1>14, <1>16, <2>1, <2>2, <3>1
    <3>2. CASE c # b
      <4>1. n \in Tracking(c) /\ mshr'[n] = mshr[n]
        BY <1>13, <1>14, <2>2, <3>2
      <4>2. dut_mshr[c] = Pushes(mshr[n].entries, dut_line[c])
        BY <1>1, <4>1 DEF Agreement, CacheInv, WaitInv
      <4>3. QED
        BY <1>15, <3>2, <4>1, <4>2
    <3>3. QED
      BY <3>1, <3>2
  <2>3. \A c \in Block : Tracking(c)' = {} => dut_mshr'[c] = << >>
    BY <1>14, <1>15 DEF Agreement, CacheInv, WaitInv
  <2>4. QED
    BY <1>1, <2>2, <2>3 DEF WaitInv
<1>19. ValueInv'
  <2>1. memory'[b] = PlayedBack(<< r >>, memory[b])
    <3>1. PlayedBack(<< >>, memory[b]) = memory[b]
      BY <1>16, <1>17, PlayedBackLaws
    <3>2. PlayedBack(Append(<< >>, r), memory[b])
            = IF r.we THEN [PlayedBack(<< >>, memory[b]) EXCEPT ![i] = r.data]
              ELSE PlayedBack(<< >>, memory[b])
      BY <1>16, <1>17, PlayedBackLaws DEF i
    <3>3. QED
      BY <1>9, <1>17, <3>1, <3>2
  <2>2. ASSUME NEW k \in DOMAIN << r >>, << r >>[k].we
        PROVE  /\ << r >>[k].data \in Nat
               /\ \A j \in Word : memory[b][j] < << r >>[k].data
    <3>1. << r >>[k] = r
      OBVIOUS
    <3>2. r.data = issued + 1
      BY <2>2, <3>1 DEF Takes
    <3>3. \A j \in Word : memory[b][j] \in 0 .. issued
      BY <1>1 DEF Agreement, CacheInv, ValueInv
    <3>4. QED
      BY <1>9, <3>1, <3>2, <3>3
  <2>3. ASSUME NEW c \in Block, NEW n \in Tracking(c)'
        PROVE  /\ memory'[c] = PlayedBack(mshr'[n].entries, dut_line'[c])
               /\ \A k \in DOMAIN mshr'[n].entries : mshr'[n].entries[k].we =>
                      /\ mshr'[n].entries[k].data \in Nat
                      /\ \A j \in Word : dut_line'[c][j] < mshr'[n].entries[k].data
    <3>1. CASE c = b
      <4>1. mshr'[n].entries = << r >> /\ dut_line'[c] = memory[b] /\ memory'[c] = memory'[b]
        BY <1>13, <1>14, <1>16, <2>3, <3>1
      <4>2. QED
        BY <2>1, <2>2, <4>1
    <3>2. CASE c # b
      <4>1. /\ n \in Tracking(c) /\ mshr'[n] = mshr[n] /\ memory'[c] = memory[c]
            /\ dut_line'[c] = dut_line[c]
        BY <1>9, <1>13, <1>14, <1>15, <2>3, <3>2
      <4>2. QED
        BY <4>1 DEF Agreement, CacheInv, ValueInv
    <3>3. QED
      BY <3>1, <3>2
  <2>4. QED
    BY <1>9, <1>12, <2>3 DEF ValueInv
<1>20. /\ ~tag_array'[w][s].valid
       /\ \A v \in Way, u \in Set : v # w \/ u # s => tag_array'[v][u] = tag_array[v][u]
  BY <1>1, <1>4, <1>6, <1>10 DEF TagArray, TagEntry
<1>21. VictimInv'
  <2>1. ASSUME NEW c \in Block, NEW n \in Tracking(c)'
        PROVE  /\ mshr'[n].victim_way = plru_victim(plru_bits'[SetOf[c]])
               /\ ~tag_array'[mshr'[n].victim_way][SetOf[c]].valid
               /\ \A d \in Block : Tracking(d)' # {} /\ SetOf[d] = SetOf[c] => d = c
               /\ DutWays(c)' = {}
    <3>1. CASE c = b
      <4>1. mshr'[n].victim_way = w /\ SetOf[c] = s
        BY <1>13, <1>14, <2>1, <3>1 DEF s
      <4>2. \A d \in Block : Tracking(d)' # {} /\ SetOf[d] = s => d = b
        BY <1>1, <1>14
      <4>3. QED
        BY <1>1, <1>2, <1>6, <1>20, <3>1, <4>1, <4>2 DEF w
    <3>2. CASE c # b
      <4>1. n \in Tracking(c) /\ n \in Mshr /\ mshr'[n] = mshr[n] /\ SetOf[c] # s /\ SetOf[c] \in Set
        BY <1>1, <1>13, <1>14, <2>1, <3>2, GoldenAssumption
      <4>2. mshr[n].victim_way \in Way
        BY <4>1, MshrTypes, TypesSplit DEF IInv
      <4>3. /\ mshr[n].victim_way = plru_victim(plru_bits[SetOf[c]])
            /\ ~tag_array[mshr[n].victim_way][SetOf[c]].valid
            /\ \A d \in Block : Tracking(d) # {} /\ SetOf[d] = SetOf[c] => d = c
            /\ DutWays(c) = {}
        BY <1>1, <4>1 DEF Agreement, CacheInv, VictimInv
      <4>4. \A d \in Block : Tracking(d)' # {} /\ SetOf[d] = SetOf[c] => d = c
        BY <1>14, <4>1, <4>3 DEF s
      <4>5. QED
        BY <1>1, <1>6, <1>20, <4>1, <4>2, <4>3, <4>4
    <3>3. QED
      BY <3>1, <3>2
  <2>2. QED
    BY <1>1, <2>1 DEF VictimInv
<1>22. HeldInv'
  <2>1. ASSUME NEW v \in Way, NEW u \in Set
        PROVE  IF tag_array'[v][u].valid
               THEN /\ dut_array'[v][u] = tag_array'[v][u].tag
                    /\ data_array'[v][u] = memory'[tag_array'[v][u].tag]
               ELSE \/ dut_array'[v][u] = None
                    \/ \E c \in Block : \E n \in Tracking(c)' :
                          SetOf[c] = u /\ mshr'[n].victim_way = v
    <3>1. CASE v = w /\ u = s
      <4>1. m \in Tracking(b)' /\ SetOf[b] = u /\ mshr'[m].victim_way = v
        BY <1>13, <1>14, <3>1 DEF s
      <4>2. QED
        BY <1>1, <1>20, <3>1, <4>1
    <3>2. CASE (v # w \/ u # s) /\ tag_array[v][u].valid
      <4>1. dut_array[v][u] = tag_array[v][u].tag
        BY <3>2 DEF Agreement, CacheInv, HeldInv
      <4>2. QED
        BY <1>1, <1>6, <1>11, <1>20, <3>2, <4>1
    <3>3. CASE (v # w \/ u # s) /\ ~tag_array[v][u].valid
      <4>1. \/ dut_array[v][u] = None
            \/ \E c \in Block : \E n \in Tracking(c) : SetOf[c] = u /\ mshr[n].victim_way = v
        BY <3>3 DEF Agreement, CacheInv, HeldInv
      <4>2. ASSUME NEW c \in Block, NEW n \in Tracking(c)
            PROVE  n \in Tracking(c)' /\ mshr'[n] = mshr[n]
        <5>1. c # b
          BY <4>2 DEF b
        <5>2. QED
          BY <1>13, <1>14, <4>2, <5>1
      <4>3. QED
        BY <1>1, <1>20, <3>3, <4>1, <4>2
    <3>4. QED
      BY <3>1, <3>2, <3>3
  <2>2. QED
    BY <2>1 DEF HeldInv
<1>23. OneWayInv'
  BY <1>1, OneWayStays
<1>24. PlruInv'
  BY <1>1, <1>3, <1>6 DEF Agreement, CacheInv, PlruInv
<1>25. QED
  BY <1>8, <1>18, <1>19, <1>21, <1>22, <1>23, <1>24 DEF Agreement, CacheInv

\* Whatever request the L1D takes, the two agree after it.
LEMMA TakenAgrees ==
  ASSUME IInv, Agreement, NEW r \in Request, Takes(r)
  PROVE  Agreement'
  BY HitAgrees, ForwardAgrees, SecondaryAgrees, PrimaryAgrees

LEMMA WriteReqAgrees ==
  ASSUME AgreeInv, write_req
  PROVE  ~overlapped' => Agreement'
<1>1. PICK n \in Nat : n = issued + 1
  BY TypesSplit DEF AgreeInv, IInv
<1>2. PICK we \in BOOLEAN, a \in Address :
         LET r == [paddr |-> a, we |-> we, data |-> IF we THEN issued + 1 ELSE 0,
                   proc_tag |-> issued + 1]
         IN  /\ issued < MaxOps
             /\ DutTakes(r) /\ l1d_model_request(r)
             /\ expected' = Drained(RequestPushes(r))
             /\ issued' = issued + 1
             /\ overlapped' = (overlapped \/ Overlaps(r))
             /\ forgotten' = IF Forgets(r) THEN forgotten \cup {issued + 1} ELSE forgotten
             /\ UNCHANGED << early_comps, mismatches >>
  BY Zenon DEF write_req
<1> DEFINE r == [paddr |-> a, we |-> we, data |-> IF we THEN n ELSE 0, proc_tag |-> n]
<1>3. n \in Tag /\ n \in Value /\ 0 \in Value
  BY <1>1, <1>2, GoldenAssumption, ScoreboardAssumption, TypesSplit DEF AgreeInv, IInv
<1>4. r \in Request /\ r.proc_tag = n /\ (r.we => r.data = n)
  BY <1>3 DEF Request
<1>5. /\ DutTakes(r) /\ l1d_model_request(r)
      /\ expected' = Drained(RequestPushes(r)) /\ issued' = n
      /\ overlapped' = (overlapped \/ Overlaps(r))
      /\ forgotten' = IF Forgets(r) THEN forgotten \cup {n} ELSE forgotten
      /\ UNCHANGED << early_comps, mismatches >>
  BY <1>1, <1>2
<1> HIDE DEF r
<1>6. ASSUME ~overlapped'
      PROVE  Agreement'
  <2>1. ~overlapped /\ ~Overlaps(r)
    BY <1>5, <1>6
  <2>2. Takes(r)
    BY <1>1, <1>4, <1>5, <2>1 DEF Takes
  <2>3. QED
    BY <1>4, <2>1, <2>2, TakenAgrees DEF AgreeInv
<1>7. QED
  BY <1>6
-----------------------------------------------------------------------------
(* A fill and an answer.                                                   *)

LEMMA DutFillsAgrees ==
  ASSUME AgreeInv, DutFills
  PROVE  ~overlapped' => Agreement'
<1> SUFFICES ASSUME ~overlapped' PROVE Agreement'
  OBVIOUS
<1>1. PICK b \in Fetched :
         /\ fill_event = None
         /\ fill_event' = [block |-> b, line |-> dut_line[b]]
         /\ dut_array' = [dut_array EXCEPT ![plru_victim(dut_plru[SetOf[b]])][SetOf[b]] = b]
         /\ dut_plru' = [dut_plru EXCEPT ![SetOf[b]]
                           = plru_update(@, plru_victim(dut_plru[SetOf[b]]))]
         /\ answers' = answers \o dut_mshr[b]
         /\ dut_mshr' = [dut_mshr EXCEPT ![b] = << >>]
         /\ UNCHANGED << goldenVars, scoreboardVars, historyVars, issued, memory, dut_line >>
  BY DEF DutFills
<1> DEFINE s == SetOf[b]
           w == plru_victim(dut_plru[s])
<1>2. ~overlapped /\ IInv /\ Agreement
  BY <1>1 DEF AgreeInv, historyVars
<1>3. /\ b \in Block /\ s \in Set /\ w \in Way /\ None \notin Block
      /\ None \notin [block : Block, line : Line]
  BY GoldenAssumption, ScoreboardAssumption, PlruWays DEF Fetched
<1>4. /\ dut_array \in [Way -> [Set -> Block \cup {None}]] /\ dut_plru \in [Set -> SUBSET Way]
      /\ dut_mshr \in [Block -> Seq(Completion)] /\ dut_line \in [Block -> Line]
      /\ answers \in Seq(Completion)
  BY <1>2, TypesSplit DEF IInv, DutTypeOK
<1>5. \A c \in Block : ~Filling(c) /\ (Filling(c)' <=> c = b)
  BY <1>1, <1>3, <1>4 DEF Filling
<1>6. PICK m \in Tracking(b) : TRUE
  BY <1>2, <1>3, FetchedTracked DEF Agreement, CacheInv
<1> DEFINE P == dut_mshr[b]
<1>7. P = Pushes(mshr[m].entries, dut_line[b])
  BY <1>2, <1>3, <1>5, <1>6 DEF Agreement, CacheInv, WaitInv
<1>8. UNCHANGED << tag_array, data_array, plru_bits, mshr, legacy_mem, expected, early_comps,
                   mismatches, overlapped, forgotten, issued, memory, dut_line >>
  BY <1>1 DEF goldenVars, scoreboardVars, historyVars
<1>9. \A c \in Block : Tracking(c)' = Tracking(c)
  BY <1>8 DEF Tracking, Active
<1>10. Pushed = << >> /\ Pushed' = P
  <2>1. fill_event' # None /\ fill_event'.block = b /\ fill_event'.line = dut_line[b]
    BY <1>1, <1>3, <1>4
  <2>2. Pushed' = FillPushes(b, dut_line[b])
    BY <1>8, <1>9, <2>1 DEF Pushed, FillPushes, Tracking, Active
  <2>3. GoldenTypeOK /\ OneBlockPerMshr
    BY <1>2, TypesSplit DEF IInv
  <2>4. FillPushes(b, dut_line[b]) = P
    BY <1>3, <1>6, <1>7, <2>3, TracksOne
  <2>5. QED
    BY <1>1, <2>2, <2>4 DEF Pushed
<1>11. /\ P \in Seq(Completion)
       /\ \A j \in DOMAIN P : P[j].tag \in Tag /\ expected[P[j].tag] = None
       /\ \A j, k \in DOMAIN P : P[j].tag = P[k].tag => j = k
  <2>1. dut_line[b] \in Line
    BY <1>3, <1>4
  <2>2. LET Q == Pushes(mshr[m].entries, dut_line[b])
        IN  /\ Q \in Seq(Completion)
            /\ \A j \in DOMAIN Q : Q[j].tag \in Tag /\ expected[Q[j].tag] = None
            /\ \A j, k \in DOMAIN Q : Q[j].tag = Q[k].tag => j = k
    BY <1>2, <1>3, <1>6, <2>1, PushesWait
  <2> HIDE DEF P
  <2>3. QED
    BY <1>7, <2>2
<1>12. /\ mshr[m].victim_way = w
       /\ ~tag_array[w][s].valid
       /\ \A c \in Block : Tracking(c) # {} /\ SetOf[c] = s => c = b
       /\ DutWays(b) = {}
  <2>1. dut_plru[s] = plru_bits[s]
    BY <1>1, <1>2, <1>3 DEF Agreement, CacheInv, PlruInv
  <2>2. QED
    BY <1>2, <1>3, <1>5, <1>6, <2>1 DEF Agreement, CacheInv, VictimInv
<1> HIDE DEF s, w, P
<1>13. WaitInv'
  <2>1. dut_mshr'[b] = << >> /\ \A c \in Block : c # b => dut_mshr'[c] = dut_mshr[c]
    BY <1>1, <1>3, <1>4
  <2>2. ASSUME NEW c \in Block, NEW n \in Tracking(c)
        PROVE  dut_mshr'[c] = IF c = b THEN << >> ELSE Pushes(mshr[n].entries, dut_line[c])
    BY <1>2, <1>5, <2>1 DEF Agreement, CacheInv, WaitInv
  <2>3. \A c \in Block : Tracking(c) = {} => dut_mshr'[c] = << >>
    BY <1>2, <2>1 DEF Agreement, CacheInv, WaitInv
  <2>4. fill_event'.block = b /\ fill_event'.line = dut_line[b]
    BY <1>1
  <2>5. QED
    BY <1>3, <1>5, <1>6, <1>8, <1>9, <2>2, <2>3, <2>4 DEF WaitInv
<1>14. ValueInv'
  BY <1>2, <1>8, <1>9 DEF Agreement, CacheInv, ValueInv
\* The line's way is the only one of its block.
<1>15. /\ dut_array'[w][s] = b
       /\ \A v \in Way, u \in Set : v # w \/ u # s => dut_array'[v][u] = dut_array[v][u]
  BY <1>1, <1>3, <1>4 DEF s, w
<1>16. DutWays(b)' = {w}
  <2>1. \A v \in Way : v # w => dut_array'[v][s] # b
    BY <1>3, <1>12, <1>15 DEF DutWays, s
  <2>2. QED
    BY <1>3, <1>15, <2>1 DEF DutWays, s
<1>17. \A c \in Block : SetOf[c] # s => DutWays(c)' = DutWays(c)
  BY <1>3, <1>15, GoldenAssumption DEF DutWays
<1>18. VictimInv'
  <2>1. ASSUME NEW c \in Block, NEW n \in Tracking(c)
        PROVE  /\ mshr[n].victim_way = plru_victim(plru_bits[SetOf[c]])
               /\ ~tag_array[mshr[n].victim_way][SetOf[c]].valid
               /\ \A d \in Block : Tracking(d) # {} /\ SetOf[d] = SetOf[c] => d = c
               /\ DutWays(c)' = IF c = b THEN {mshr[n].victim_way} ELSE {}
    <3>1. /\ mshr[n].victim_way = plru_victim(plru_bits[SetOf[c]])
          /\ ~tag_array[mshr[n].victim_way][SetOf[c]].valid
          /\ \A d \in Block : Tracking(d) # {} /\ SetOf[d] = SetOf[c] => d = c
          /\ DutWays(c) = {}
      BY <1>2, <1>5 DEF Agreement, CacheInv, VictimInv
    <3>2. CASE c = b
      <4>1. mshr[n].victim_way = w
        <5>1. mshr[m].victim_way = plru_victim(plru_bits[SetOf[b]])
          BY <1>2, <1>3, <1>6 DEF Agreement, CacheInv, VictimInv
        <5>2. QED
          BY <1>12, <3>1, <3>2, <5>1
      <4>2. QED
        BY <1>16, <3>1, <3>2, <4>1
    <3>3. CASE c # b
      <4>1. SetOf[c] # s
        BY <1>12, <2>1, <3>3
      <4>2. QED
        BY <1>17, <3>1, <3>3, <4>1
    <3>4. QED
      BY <3>2, <3>3
  <2>2. QED
    BY <1>5, <1>8, <1>9, <2>1 DEF VictimInv
<1>19. HeldInv'
  <2>1. ASSUME NEW v \in Way, NEW u \in Set
        PROVE  IF tag_array[v][u].valid
               THEN /\ dut_array'[v][u] = tag_array[v][u].tag
                    /\ data_array[v][u] = memory[tag_array[v][u].tag]
               ELSE \/ dut_array'[v][u] = None
                    \/ \E c \in Block : \E n \in Tracking(c) :
                          SetOf[c] = u /\ mshr[n].victim_way = v
    <3>1. CASE v = w /\ u = s
      BY <1>3, <1>6, <1>12, <3>1 DEF s
    <3>2. CASE v # w \/ u # s
      BY <1>2, <1>15, <3>2 DEF Agreement, CacheInv, HeldInv
    <3>3. QED
      BY <3>1, <3>2
  <2>2. QED
    BY <1>8, <1>9, <2>1 DEF HeldInv
<1>20. OneWayInv'
  <2>1. ASSUME NEW v \in Way, NEW u \in Set, NEW c \in Block, dut_array'[v][u] = c
        PROVE  SetOf[c] = u /\ DutWays(c)' = {v}
    <3>1. CASE v = w /\ u = s
      BY <1>15, <1>16, <2>1, <3>1 DEF s
    <3>2. CASE v # w \/ u # s
      <4>1. dut_array[v][u] = c
        BY <1>15, <2>1, <3>2
      <4>2. SetOf[c] = u /\ DutWays(c) = {v}
        BY <1>2, <1>3, <4>1 DEF Agreement, CacheInv, OneWayInv
      <4>3. c # b
        BY <1>12, <4>2
      <4>4. DutWays(c)' = {v}
        <5>1. CASE u # s
          BY <1>17, <4>2, <5>1
        <5>2. CASE u = s
          <6>1. v # w
            BY <3>2, <5>2
          <6>2. \A x \in Way : dut_array'[x][s] = c <=> dut_array[x][s] = c /\ x # w
            BY <1>3, <1>15, <4>3
          <6>3. QED
            BY <4>2, <5>2, <6>1, <6>2 DEF DutWays
        <5>3. QED
          BY <5>1, <5>2
      <4>5. QED
        BY <4>2, <4>4
    <3>3. QED
      BY <3>1, <3>2
  <2>2. \A v \in Way, u \in Set : dut_array'[v][u] \in Block \cup {None}
    <3>1. \A v \in Way, u \in Set : dut_array[v][u] \in Block \cup {None}
      BY <1>4
    <3>2. QED
      BY <1>3, <1>15, <3>1
  <2>3. \A v \in Way, u \in Set : \A c \in Block : dut_array'[v][u] = c =>
           SetOf[c] = u /\ {x \in Way : dut_array'[x][SetOf[c]] = c} = {v}
    BY <2>1 DEF DutWays
  <2>4. QED
    BY <2>2, <2>3 DEF OneWayInv, DutWays
<1>21. PlruInv'
  <2>1. /\ dut_plru'[s] = plru_update(dut_plru[s], w)
        /\ \A u \in Set : u # s => dut_plru'[u] = dut_plru[u]
    BY <1>1, <1>3, <1>4 DEF s, w
  <2>2. \A u \in Set : dut_plru[u] = plru_bits[u]
    BY <1>1, <1>2 DEF Agreement, CacheInv, PlruInv
  <2>3. \A n \in Tracking(b) : mshr[n].victim_way = w
    <3>1. \A n \in Tracking(b) : mshr[n].victim_way = plru_victim(plru_bits[SetOf[b]])
      BY <1>2, <1>3 DEF Agreement, CacheInv, VictimInv
    <3>2. QED
      BY <1>6, <1>12, <3>1
  <2>4. fill_event' # None /\ fill_event'.block = b
    BY <1>1, <1>3, <1>4
  <2>5. ASSUME NEW u \in Set
        PROVE  IF SetOf[b] = u
               THEN \A n \in Tracking(b) : dut_plru'[u] = plru_update(plru_bits[u], mshr[n].victim_way)
               ELSE dut_plru'[u] = plru_bits[u]
    BY <1>3, <2>1, <2>2, <2>3 DEF s
  <2>6. Tracking(fill_event.block)' = Tracking(b)
    BY <1>8, <2>4 DEF Tracking, Active
  <2>7. QED
    BY <1>8, <2>4, <2>5, <2>6 DEF PlruInv
\* The answers sent now are those the fill will make expected; the earlier ones are
\* expected already.
<1>22. AnswerInv'
  <2>1. /\ early_comps = {} /\ mismatches = {} /\ forgotten = {}
        /\ \A k \in DOMAIN answers : expected[answers[k].tag] = answers[k]
        /\ \A j, k \in DOMAIN answers : answers[j].tag = answers[k].tag => j = k
        /\ \A t \in Expected : \E k \in DOMAIN answers : answers[k].tag = t
    BY <1>2, <1>10 DEF Agreement, AnswerInv, In
  <2>2. \A k \in DOMAIN answers : answers[k] # None
    <3>1. \A k \in DOMAIN answers : answers[k] \in Completion
      BY <1>4
    <3>2. QED
      BY <3>1, ScoreboardAssumption
  <2> DEFINE a == answers'
  <2>3. /\ a \in Seq(Completion) /\ Len(a) = Len(answers) + Len(P)
        /\ \A k \in 1 .. Len(answers) + Len(P) :
             a[k] = IF k <= Len(answers) THEN answers[k] ELSE P[k - Len(answers)]
        /\ Len(answers) \in Nat /\ Len(P) \in Nat
    BY <1>1, <1>4, <1>11, ConcatProperties DEF P
  <2> HIDE DEF a
  <2>4. ASSUME NEW k \in DOMAIN a
        PROVE  \/ k \in DOMAIN answers /\ a[k] = answers[k]
               \/ k - Len(answers) \in DOMAIN P /\ a[k] = P[k - Len(answers)] /\ k \in Int
    <3>1. k \in 1 .. Len(answers) + Len(P)
      BY <2>3
    <3>2. CASE k <= Len(answers)
      BY <2>3, <3>1, <3>2
    <3>3. CASE ~(k <= Len(answers))
      <4>1. k - Len(answers) \in 1 .. Len(P)
        BY <2>3, <3>1, <3>3
      <4>2. QED
        BY <1>11, <2>3, <3>1, <3>3, <4>1
    <3>4. QED
      BY <3>2, <3>3
  <2>5. \A j \in DOMAIN P : In(P[j], a)
    <3>1. ASSUME NEW j \in DOMAIN P
          PROVE  j + Len(answers) \in DOMAIN a /\ a[j + Len(answers)] = P[j]
      <4>1. j \in 1 .. Len(P) /\ DOMAIN a = 1 .. Len(answers) + Len(P)
        BY <1>11, <2>3
      <4>2. QED
        BY <2>3, <4>1
    <3>2. QED
      BY <3>1 DEF In
  <2>6. \A k \in DOMAIN answers : In(answers[k], a) /\ k \in DOMAIN a /\ a[k] = answers[k]
    <3>1. ASSUME NEW k \in DOMAIN answers
          PROVE  k \in DOMAIN a /\ a[k] = answers[k]
      <4>1. k \in 1 .. Len(answers) /\ DOMAIN a = 1 .. Len(answers) + Len(P)
        BY <1>4, <2>3
      <4>2. QED
        BY <2>3, <4>1
    <3>2. QED
      BY <3>1 DEF In
  <2>7. \A k \in DOMAIN a : expected[a[k].tag] = a[k] \/ In(a[k], P)
    BY <2>1, <2>4 DEF In
  <2>8. ASSUME NEW j \in DOMAIN a, NEW k \in DOMAIN a, a[j].tag = a[k].tag
        PROVE  j = k
    <3>1. CASE j \in DOMAIN answers /\ a[j] = answers[j] /\ k \in DOMAIN answers /\ a[k] = answers[k]
      BY <2>1, <2>8, <3>1
    <3>2. CASE /\ k - Len(answers) \in DOMAIN P /\ a[k] = P[k - Len(answers)]
               /\ j \in DOMAIN answers /\ a[j] = answers[j]
      BY <1>11, <2>1, <2>2, <2>8, <3>2
    <3>3. CASE /\ j - Len(answers) \in DOMAIN P /\ a[j] = P[j - Len(answers)]
               /\ k \in DOMAIN answers /\ a[k] = answers[k]
      BY <1>11, <2>1, <2>2, <2>8, <3>3
    <3>4. CASE /\ j - Len(answers) \in DOMAIN P /\ a[j] = P[j - Len(answers)] /\ j \in Int
               /\ k - Len(answers) \in DOMAIN P /\ a[k] = P[k - Len(answers)] /\ k \in Int
      <4>1. j - Len(answers) = k - Len(answers)
        BY <1>11, <2>8, <3>4
      <4>2. QED
        BY <2>3, <3>4, <4>1
    <3>5. QED
      BY <2>4, <3>1, <3>2, <3>3, <3>4
  <2>9. \A t \in Expected : \E k \in DOMAIN a : a[k].tag = t
    BY <2>1, <2>6
  <2>10. Expected' = Expected
    BY <1>8 DEF Expected
  <2>11. QED
    BY <1>8, <1>10, <2>1, <2>5, <2>7, <2>8, <2>9, <2>10 DEF AnswerInv, In, a
<1>23. QED
  BY <1>13, <1>14, <1>18, <1>19, <1>20, <1>21, <1>22 DEF Agreement, CacheInv

\* Each of several completions with different tags is filed under its own.
LEMMA DrainedAll ==
  ASSUME NEW P \in Seq(Completion), \A j, k \in DOMAIN P : P[j].tag = P[k].tag => j = k
  PROVE  /\ \A j \in DOMAIN P : Drained(P)[P[j].tag] = P[j]
         /\ \A t \in Tag : (\A j \in DOMAIN P : P[j].tag # t) => Drained(P)[t] = expected[t]
<1>1. ASSUME NEW j \in DOMAIN P
      PROVE  Drained(P)[P[j].tag] = P[j]
  <2>1. P[j].tag \in Tag /\ j \in Int
    <3>1. P[j] \in Completion /\ j \in Int
      OBVIOUS
    <3>2. QED
      BY <3>1 DEF Completion
  <2>2. {k \in DOMAIN P : P[k].tag = P[j].tag} = {j}
    OBVIOUS
  <2>3. Max({j}) = j
    <3>1. {j} \in SUBSET Int /\ j \in {j} /\ \A y \in {j} : y <= j
      BY <2>1
    <3>2. QED
      BY <3>1, MaxIs
  <2>4. QED
    BY <2>1, <2>2, <2>3 DEF Drained
<1>2. ASSUME NEW t \in Tag, \A j \in DOMAIN P : P[j].tag # t
      PROVE  Drained(P)[t] = expected[t]
  <2>1. {k \in DOMAIN P : P[k].tag = t} = {}
    BY <1>2
  <2>2. QED
    BY <2>1 DEF Drained
<1>3. QED
  BY <1>1, <1>2

\* A fill is seen by the golden model: the block arrives where the L1D has put it.
LEMMA WriteFillCache ==
  ASSUME IInv, Agreement, write_fill
  PROVE  CacheInv'
<1>1. PICK b \in Block, line \in Line :
         /\ fill_event # None /\ b = fill_event.block /\ line = fill_event.line
         /\ l1d_model_fill(b, line) /\ fill_event' = None
         /\ UNCHANGED << issued, memory, dut_array, dut_plru, dut_mshr, dut_line, answers >>
  <2>1. fill_event # None => fill_event.block \in Block /\ fill_event.line \in Line
    BY TypesSplit DEF IInv, DutTypeOK
  <2>2. QED
    BY <2>1 DEF write_fill
<1> DEFINE s == SetOf[b]
<1>2. /\ b \in Block /\ s \in Set /\ line \in Line /\ line = dut_line[b]
      /\ Tracking(b) # {}
  BY <1>1, GoldenAssumption DEF Agreement, CacheInv, WaitInv
<1>3. PICK m \in Tracking(b) : TRUE
  BY <1>2
<1> DEFINE q == mshr[m].entries
           w == mshr[m].victim_way
<1>4. /\ GoldenTypeOK /\ OneBlockPerMshr
      /\ memory \in [Block -> Line] /\ dut_line \in [Block -> Line]
      /\ dut_array \in [Way -> [Set -> Block \cup {None}]]
      /\ tag_array \in TagArray /\ mshr \in MshrTable
      /\ data_array \in [Way -> [Set -> Line]] /\ plru_bits \in [Set -> SUBSET Way]
      /\ legacy_mem \in [Block -> Line] /\ None \notin Block
  BY TypesSplit, NamedTypes, ScoreboardAssumption DEF IInv, DutTypeOK, GoldenTypeOK
<1>5. /\ m \in Mshr /\ q \in Seq(Request) /\ Tracking(b) = {m} /\ Min(Tracking(b)) = m
      /\ w \in Way
  BY <1>2, <1>3, <1>4, TracksOne, MshrTypes
<1>6. /\ data_array' = [data_array EXCEPT ![w][s] = PlayedBack(q, line)]
      /\ tag_array' = Installed(b, w, \E k \in DOMAIN q : q[k].we)
      /\ plru_bits' = [plru_bits EXCEPT ![s] = plru_update(@, w)]
      /\ mshr' = [mshr EXCEPT ![m].entries = << >>]
      /\ legacy_mem' = [legacy_mem EXCEPT ![b] = PlayedBack(q, @)]
  BY <1>1, <1>2, <1>5 DEF l1d_model_fill, FillTracked, FillUntracked
<1>7. /\ memory[b] = PlayedBack(q, line) /\ legacy_mem = memory
      /\ PlayedBack(q, memory[b]) = memory[b]
  <2>1. memory[b] = PlayedBack(q, line) /\ legacy_mem = memory
    BY <1>2, <1>3 DEF Agreement, CacheInv, ValueInv
  <2>2. QED
    BY <1>2, <1>5, <2>1, PlayedBackLaws
<1>8. /\ \A c \in Block : Filling(c) <=> c = b
      /\ \A c \in Block : ~Filling(c)'
  BY <1>1 DEF Filling
<1>9. /\ \A c \in Block : Tracking(c) # {} /\ SetOf[c] = s => c = b
      /\ DutWays(b) = {w}
  BY <1>2, <1>3, <1>8 DEF Agreement, CacheInv, VictimInv
<1>10. \A c \in Block : DutWays(c)' = DutWays(c)
  BY <1>1 DEF DutWays
<1> HIDE DEF s, q, w
<1>11. /\ mshr'[m].entries = << >>
       /\ \A n \in Mshr : n # m => mshr'[n] = mshr[n]
  BY <1>4, <1>5, <1>6 DEF MshrTable, MshrEntry
<1>12. /\ Tracking(b)' = {}
       /\ \A c \in Block : \A n \in Tracking(c)' : /\ c # b /\ n \in Mshr
                                                   /\ n \in Tracking(c) /\ mshr'[n] = mshr[n]
       /\ \A c \in Block : \A n \in Tracking(c) : c # b => n \in Tracking(c)' /\ mshr'[n] = mshr[n]
  <2>1. \A c \in Block : Tracking(c)' = {n \in Tracking(c) : n # m}
    BY <1>11 DEF Tracking, Active
  <2>2. Tracking(b)' = {n \in Tracking(b) : n # m}
    BY <1>2, <2>1
  <2>3. m \in Tracking(b) /\ \A c \in Block : m \in Tracking(c) => c = b
    BY <1>3 DEF Tracking
  <2>4. \A c \in Block : \A n \in Tracking(c) : n \in Mshr
    BY DEF Tracking
  <2>5. QED
    BY <1>2, <1>5, <1>11, <2>1, <2>2, <2>3, <2>4
<1>13. WaitInv'
  <2>1. dut_mshr[b] = << >>
    BY <1>2, <1>3, <1>8 DEF Agreement, CacheInv, WaitInv
  <2>2. \A c \in Block : Tracking(c)' = {} => dut_mshr[c] = << >>
    <3>1. ASSUME NEW c \in Block, Tracking(c)' = {}, c # b
          PROVE  Tracking(c) = {}
      BY <1>12, <3>1
    <3>2. QED
      BY <2>1, <3>1 DEF Agreement, CacheInv, WaitInv
  <2>3. \A c \in Block : \A n \in Tracking(c)' : dut_mshr[c] = Pushes(mshr'[n].entries, dut_line[c])
    <3>1. ASSUME NEW c \in Block, NEW n \in Tracking(c)'
          PROVE  dut_mshr[c] = Pushes(mshr'[n].entries, dut_line[c])
      <4>1. c # b /\ n \in Tracking(c) /\ mshr'[n] = mshr[n]
        BY <1>12, <3>1
      <4>2. dut_mshr[c] = Pushes(mshr[n].entries, dut_line[c])
        BY <1>8, <4>1 DEF Agreement, CacheInv, WaitInv
      <4>3. QED
        BY <4>1, <4>2
    <3>2. QED
      BY <3>1
  <2>4. QED
    BY <1>1, <1>8, <2>2, <2>3 DEF WaitInv
<1>14. ValueInv'
  <2>1. legacy_mem' = memory'
    BY <1>1, <1>2, <1>4, <1>6, <1>7
  <2>2. ASSUME NEW c \in Block, NEW n \in Tracking(c)'
        PROVE  /\ memory[c] = PlayedBack(mshr'[n].entries, dut_line[c])
               /\ \A k \in DOMAIN mshr'[n].entries : mshr'[n].entries[k].we =>
                      /\ mshr'[n].entries[k].data \in Nat
                      /\ \A j \in Word : dut_line[c][j] < mshr'[n].entries[k].data
    <3>1. n \in Tracking(c) /\ mshr'[n] = mshr[n]
      BY <1>12, <2>2
    <3>2. QED
      BY <3>1 DEF Agreement, CacheInv, ValueInv
  <2>3. QED
    BY <1>1, <2>1, <2>2 DEF Agreement, CacheInv, ValueInv
<1>15. /\ tag_array'[w][s].valid /\ tag_array'[w][s].tag = b
       /\ \A v \in Way, u \in Set : v # w \/ u # s => tag_array'[v][u] = tag_array[v][u]
  BY <1>2, <1>4, <1>5, <1>6 DEF Installed, TagArray, s
<1>16. /\ data_array'[w][s] = memory[b]
       /\ \A v \in Way, u \in Set : v # w \/ u # s => data_array'[v][u] = data_array[v][u]
  BY <1>2, <1>4, <1>5, <1>6, <1>7
<1>17. /\ plru_bits'[s] = plru_update(plru_bits[s], w)
       /\ \A u \in Set : u # s => plru_bits'[u] = plru_bits[u]
  BY <1>2, <1>4, <1>6
<1>18. VictimInv'
  <2>1. ASSUME NEW c \in Block, NEW n \in Tracking(c)'
        PROVE  /\ mshr'[n].victim_way = plru_victim(plru_bits'[SetOf[c]])
               /\ ~tag_array'[mshr'[n].victim_way][SetOf[c]].valid
               /\ \A d \in Block : Tracking(d)' # {} /\ SetOf[d] = SetOf[c] => d = c
               /\ DutWays(c)' = {}
    <3>1. c # b /\ n \in Mshr /\ n \in Tracking(c) /\ mshr'[n] = mshr[n]
      BY <1>12, <2>1
    <3>2. SetOf[c] \in Set /\ SetOf[c] # s /\ mshr[n].victim_way \in Way
      BY <1>4, <1>9, <3>1, MshrTypes, GoldenAssumption
    <3>3. /\ mshr[n].victim_way = plru_victim(plru_bits[SetOf[c]])
          /\ ~tag_array[mshr[n].victim_way][SetOf[c]].valid
          /\ \A d \in Block : Tracking(d) # {} /\ SetOf[d] = SetOf[c] => d = c
          /\ DutWays(c) = {}
      BY <1>8, <3>1 DEF Agreement, CacheInv, VictimInv
    <3>4. \A d \in Block : Tracking(d)' # {} => Tracking(d) # {}
      BY <1>12
    <3>5. QED
      BY <1>10, <1>15, <1>17, <3>1, <3>2, <3>3, <3>4
  <2>2. QED
    BY <1>8, <2>1 DEF VictimInv
<1>19. HeldInv'
  <2>1. dut_array[w][s] = b
    BY <1>9 DEF DutWays, s
  <2>2. ASSUME NEW v \in Way, NEW u \in Set
        PROVE  IF tag_array'[v][u].valid
               THEN /\ dut_array[v][u] = tag_array'[v][u].tag
                    /\ data_array'[v][u] = memory[tag_array'[v][u].tag]
               ELSE \/ dut_array[v][u] = None
                    \/ \E c \in Block : \E n \in Tracking(c)' :
                          SetOf[c] = u /\ mshr'[n].victim_way = v
    <3>1. CASE v = w /\ u = s
      BY <1>15, <1>16, <2>1, <3>1
    <3>2. CASE (v # w \/ u # s) /\ tag_array[v][u].valid
      BY <1>15, <1>16, <3>2 DEF Agreement, CacheInv, HeldInv
    <3>3. CASE (v # w \/ u # s) /\ ~tag_array[v][u].valid
      <4>1. \/ dut_array[v][u] = None
            \/ \E c \in Block : \E n \in Tracking(c) : SetOf[c] = u /\ mshr[n].victim_way = v
        BY <3>3 DEF Agreement, CacheInv, HeldInv
      <4>2. ASSUME NEW c \in Block, NEW n \in Tracking(c), SetOf[c] = u, mshr[n].victim_way = v
            PROVE  n \in Tracking(c)' /\ mshr'[n] = mshr[n]
        <5>1. c # b
          BY <1>5, <3>3, <4>2 DEF s, w
        <5>2. QED
          BY <1>12, <4>2, <5>1
      <4>3. QED
        BY <1>15, <3>3, <4>1, <4>2
    <3>4. QED
      BY <3>1, <3>2, <3>3
  <2>3. QED
    BY <1>1, <2>2 DEF HeldInv
<1>20. OneWayInv'
  BY <1>1, OneWayStays
<1>21. PlruInv'
  <2>1. ASSUME NEW u \in Set
        PROVE  dut_plru[u] = plru_bits'[u]
    <3>1. CASE u = s
      <4>1. dut_plru[s] = plru_update(plru_bits[s], w)
        BY <1>1, <1>2, <1>3 DEF Agreement, CacheInv, PlruInv, s, w
      <4>2. QED
        BY <1>17, <3>1, <4>1
    <3>2. CASE u # s
      <4>1. dut_plru[u] = plru_bits[u]
        BY <1>1, <3>2 DEF Agreement, CacheInv, PlruInv, s
      <4>2. QED
        BY <1>17, <3>2, <4>1
    <3>3. QED
      BY <3>1, <3>2
  <2>2. QED
    BY <1>1, <2>1 DEF PlruInv
<1>22. QED
  BY <1>13, <1>14, <1>18, <1>19, <1>20, <1>21 DEF CacheInv

\* What came early is found right, and what is still on its way is expected.
LEMMA WriteFillAnswers ==
  ASSUME IInv, Agreement, write_fill
  PROVE  AnswerInv'
<1> DEFINE P == Pushed
           filed == Drained(P)
           found == Resolved(filed)
<1>1. /\ fill_event # None /\ fill_event' = None
      /\ early_comps' = early_comps \ found
      /\ expected' = [t \in Tag |-> IF \E c \in found : c.tag = t THEN None ELSE filed[t]]
      /\ mismatches' = mismatches \cup {c.tag : c \in {d \in found : Wrong(d, filed[d.tag])}}
      /\ answers' = answers /\ forgotten' = forgotten
  BY DEF write_fill, Pushed, historyVars
<1>2. /\ \A k \in DOMAIN answers : expected[answers[k].tag] = answers[k] \/ In(answers[k], P)
      /\ \A j, k \in DOMAIN answers : answers[j].tag = answers[k].tag => j = k
      /\ \A k \in DOMAIN answers : \A c \in early_comps : c.tag # answers[k].tag
      /\ \A c \in early_comps : In(c, P)
      /\ \A j \in DOMAIN P : P[j] \in early_comps \/ In(P[j], answers)
      /\ \A t \in Expected : \E k \in DOMAIN answers : answers[k].tag = t
      /\ mismatches = {} /\ forgotten = {}
  BY DEF Agreement, AnswerInv
<1>3. /\ P \in Seq(Completion)
      /\ \A j \in DOMAIN P : P[j].tag \in Tag /\ expected[P[j].tag] = None
      /\ \A j, k \in DOMAIN P : P[j].tag = P[k].tag => j = k
  BY PushedWait DEF Agreement, CacheInv
<1> HIDE DEF P
<1>4. /\ \A j \in DOMAIN P : filed[P[j].tag] = P[j] /\ P[j] \in Completion
      /\ \A t \in Tag : (\A j \in DOMAIN P : P[j].tag # t) => filed[t] = expected[t]
  BY <1>3, DrainedAll
<1> HIDE DEF filed
<1>5. /\ early_comps \subseteq Completion /\ None \notin Completion
      /\ \A k \in DOMAIN answers : answers[k] \in Completion /\ answers[k].tag \in Tag
  <2>1. \A k \in DOMAIN answers : answers[k] \in Completion
    BY TypesSplit DEF IInv, DutTypeOK
  <2>2. QED
    BY <2>1, TypesSplit, ScoreboardAssumption DEF IInv, Completion
<1>6. \A c \in early_comps : filed[c.tag] = c /\ c # None
  BY <1>2, <1>4, <1>5 DEF In
<1>7. found = early_comps
  BY <1>6 DEF Resolved
<1> HIDE DEF found
<1>8. early_comps' = {} /\ mismatches' = {}
  <2>1. \A d \in found : ~Wrong(d, filed[d.tag])
    BY <1>6, <1>7 DEF Wrong
  <2>2. QED
    BY <1>1, <1>2, <1>7, <2>1
<1>9. \A t \in Tag : expected'[t] = IF \E c \in early_comps : c.tag = t THEN None ELSE filed[t]
  BY <1>1, <1>7
<1>10. ASSUME NEW k \in DOMAIN answers
       PROVE  expected'[answers[k].tag] = answers[k]
  <2>1. filed[answers[k].tag] = answers[k]
    <3>1. CASE In(answers[k], P)
      BY <1>4, <3>1 DEF In
    <3>2. CASE expected[answers[k].tag] = answers[k]
      <4>1. \A j \in DOMAIN P : P[j].tag # answers[k].tag
        BY <1>3, <1>5, <3>2
      <4>2. QED
        BY <1>4, <1>5, <3>2, <4>1
    <3>3. QED
      BY <1>2, <3>1, <3>2
  <2>2. QED
    BY <1>2, <1>5, <1>9, <2>1
<1>11. ASSUME NEW t \in Tag, expected'[t] # None
       PROVE  \E k \in DOMAIN answers : answers[k].tag = t
  <2>1. filed[t] # None /\ \A c \in early_comps : c.tag # t
    BY <1>9, <1>11
  <2>2. CASE \E j \in DOMAIN P : P[j].tag = t
    <3>1. PICK j \in DOMAIN P : P[j].tag = t
      BY <2>2
    <3>2. In(P[j], answers)
      BY <1>2, <2>1, <3>1
    <3>3. QED
      BY <3>1, <3>2 DEF In
  <2>3. CASE \A j \in DOMAIN P : P[j].tag # t
    <3>1. t \in Expected
      BY <1>4, <2>1, <2>3 DEF Expected
    <3>2. QED
      BY <1>2, <3>1
  <2>4. QED
    BY <2>2, <2>3
<1>12. Pushed' = << >>
  BY <1>1 DEF Pushed
<1>13. QED
  BY <1>1, <1>2, <1>8, <1>10, <1>11, <1>12 DEF AnswerInv, Expected

LEMMA WriteFillAgrees ==
  ASSUME AgreeInv, write_fill
  PROVE  ~overlapped' => Agreement'
<1>1. overlapped' = overlapped
  BY DEF write_fill, historyVars
<1>2. QED
  BY <1>1, WriteFillCache, WriteFillAnswers DEF AgreeInv, Agreement

\* The first answer is found right, or is the fill's.
LEMMA WriteCompAgrees ==
  ASSUME AgreeInv, write_comp
  PROVE  ~overlapped' => Agreement'
<1> SUFFICES ASSUME ~overlapped' PROVE Agreement'
  OBVIOUS
<1> DEFINE c == Head(answers)
           P == Pushed
<1>1. UNCHANGED << tag_array, data_array, plru_bits, mshr, legacy_mem, overlapped, forgotten,
                   issued, memory, dut_array, dut_plru, dut_mshr, dut_line, fill_event >>
  BY DEF write_comp, goldenVars, historyVars
<1>2. ~overlapped /\ IInv /\ Agreement
  BY <1>1 DEF AgreeInv
<1>3. CacheInv'
  <2>1. \A b \in Block : /\ Tracking(b)' = Tracking(b) /\ Filling(b)' = Filling(b)
                         /\ DutWays(b)' = DutWays(b)
    BY <1>1 DEF Tracking, Active, Filling, DutWays
  <2>2. WaitInv' /\ ValueInv' /\ VictimInv' /\ HeldInv'
    <3>1. fill_event # None => fill_event.block \in Block
      BY <1>2, TypesSplit DEF IInv, DutTypeOK
    <3>2. WaitInv'
      BY <1>1, <1>2, <2>1, <3>1 DEF Agreement, CacheInv, WaitInv
    <3>3. ValueInv'
      BY <1>1, <1>2, <2>1 DEF Agreement, CacheInv, ValueInv
    <3>4. VictimInv'
      BY <1>1, <1>2, <2>1 DEF Agreement, CacheInv, VictimInv
    <3>5. HeldInv'
      BY <1>1, <1>2, <2>1 DEF Agreement, CacheInv, HeldInv
    <3>6. QED
      BY <3>2, <3>3, <3>4, <3>5
  <2>3. OneWayInv'
    BY <1>1, <1>2, OneWayStays
  <2>4. PlruInv'
    <3>1. fill_event # None => fill_event.block \in Block
      BY <1>2, TypesSplit DEF IInv, DutTypeOK
    <3>2. QED
      BY <1>1, <1>2, <2>1, <3>1 DEF Agreement, CacheInv, PlruInv
  <2>5. QED
    BY <2>2, <2>3, <2>4 DEF CacheInv
<1>4. /\ \A k \in DOMAIN answers : expected[answers[k].tag] = answers[k] \/ In(answers[k], P)
      /\ \A j, k \in DOMAIN answers : answers[j].tag = answers[k].tag => j = k
      /\ \A k \in DOMAIN answers : \A d \in early_comps : d.tag # answers[k].tag
      /\ \A d \in early_comps : In(d, P)
      /\ \A j \in DOMAIN P : P[j] \in early_comps \/ In(P[j], answers)
      /\ \A t \in Expected : \E k \in DOMAIN answers : answers[k].tag = t
      /\ mismatches = {} /\ forgotten = {}
  BY <1>2 DEF Agreement, AnswerInv
<1>5. /\ P \in Seq(Completion)
      /\ \A j \in DOMAIN P : P[j].tag \in Tag /\ expected[P[j].tag] = None
  BY <1>2, PushedWait DEF Agreement, CacheInv
<1>6. Pushed' = P
  BY <1>1 DEF Pushed, FillPushes, Tracking, Active
<1>7. /\ answers # << >> /\ answers' = Tail(answers) /\ answers \in Seq(Completion)
  BY <1>2, TypesSplit DEF write_comp, IInv, DutTypeOK
<1>8. /\ c = answers[1] /\ 1 \in DOMAIN answers /\ c \in Completion /\ c.tag \in Tag
      /\ \A k \in DOMAIN answers' : k + 1 \in DOMAIN answers /\ answers'[k] = answers[k + 1] /\ k \in Nat \ {0}
      /\ \A k \in DOMAIN answers : k # 1 => k - 1 \in DOMAIN answers' /\ answers'[k - 1] = answers[k]
  <2>1. c = answers[1] /\ 1 \in DOMAIN answers /\ c \in Completion
    BY <1>7
  <2>2. Len(answers') = Len(answers) - 1 /\ answers' \in Seq(Completion) /\ Len(answers) \in Nat
        /\ \A k \in 1 .. Len(answers') : answers'[k] = answers[k + 1]
    BY <1>7, HeadTailProperties
  <2>3. \A k \in DOMAIN answers' : k + 1 \in DOMAIN answers /\ answers'[k] = answers[k + 1] /\ k \in Nat \ {0}
    BY <1>7, <2>2
  <2>4. \A k \in DOMAIN answers : k # 1 => k - 1 \in DOMAIN answers' /\ answers'[k - 1] = answers[k]
    <3>1. ASSUME NEW k \in DOMAIN answers, k # 1
          PROVE  k - 1 \in DOMAIN answers' /\ answers'[k - 1] = answers[k]
      <4>1. k \in 1 .. Len(answers) /\ k - 1 \in 1 .. Len(answers') /\ (k - 1) + 1 = k
        BY <1>7, <2>2, <3>1
      <4>2. QED
        BY <2>2, <4>1
    <3>2. QED
      BY <3>1
  <2>5. QED
    BY <2>1, <2>3, <2>4 DEF Completion
<1>9. \/ /\ expected[c.tag] = None
         /\ early_comps' = early_comps \cup {c} /\ UNCHANGED << expected, mismatches >>
      \/ /\ expected[c.tag] # None /\ expected' = [expected EXCEPT ![c.tag] = None]
         /\ mismatches' = IF Wrong(c, expected[c.tag]) THEN mismatches \cup {c.tag} ELSE mismatches
         /\ early_comps' = early_comps
  BY DEF write_comp
<1>10. expected \in [Tag -> Completion \cup {None}] /\ None \notin Completion
  BY <1>2, TypesSplit, ScoreboardAssumption DEF IInv
<1> HIDE DEF c, P
\* The answers that remain have other tags.
<1>11. /\ \A k \in DOMAIN answers' : In(answers'[k], answers) /\ answers'[k].tag # c.tag
       /\ \A j, k \in DOMAIN answers' : answers'[j].tag = answers'[k].tag => j = k
       /\ \A d : In(d, answers) /\ d # c => In(d, answers')
  <2>1. ASSUME NEW k \in DOMAIN answers'
        PROVE  In(answers'[k], answers) /\ answers'[k].tag # c.tag
    <3>1. k + 1 \in DOMAIN answers /\ answers'[k] = answers[k + 1] /\ k + 1 # 1
      BY <1>8
    <3>2. QED
      BY <1>4, <1>8, <3>1 DEF In
  <2>2. ASSUME NEW j \in DOMAIN answers', NEW k \in DOMAIN answers', answers'[j].tag = answers'[k].tag
        PROVE  j = k
    <3>1. j + 1 = k + 1 /\ j \in Nat /\ k \in Nat
      BY <1>4, <1>8, <2>2
    <3>2. QED
      BY <3>1
  <2>3. \A d : In(d, answers) /\ d # c => In(d, answers')
    BY <1>8 DEF In
  <2>4. QED
    BY <2>1, <2>2, <2>3
<1>12. CASE expected[c.tag] = None
  <2>1. early_comps' = early_comps \cup {c} /\ expected' = expected /\ mismatches' = mismatches
    BY <1>9, <1>12
  <2>2. In(c, P)
    <3>1. c # None
      BY <1>8, <1>10
    <3>2. QED
      BY <1>4, <1>8, <1>12, <3>1
  <2>3. \A k \in DOMAIN answers' : expected'[answers'[k].tag] = answers'[k] \/ In(answers'[k], P)
    BY <1>4, <1>8, <2>1
  <2>4. \A k \in DOMAIN answers' : \A d \in early_comps' : d.tag # answers'[k].tag
    BY <1>4, <1>8, <1>11, <2>1
  <2>5. \A j \in DOMAIN P : P[j] \in early_comps' \/ In(P[j], answers')
    BY <1>4, <1>11, <2>1
  <2>6. \A t \in Expected' : \E k \in DOMAIN answers' : answers'[k].tag = t
    <3>1. ASSUME NEW t \in Expected'
          PROVE  \E k \in DOMAIN answers' : answers'[k].tag = t
      <4>1. t \in Expected /\ t # c.tag
        BY <1>12, <2>1, <3>1 DEF Expected
      <4>2. PICK k \in DOMAIN answers : answers[k].tag = t
        BY <1>4, <4>1
      <4>3. k # 1
        BY <1>8, <4>1, <4>2
      <4>4. QED
        BY <1>8, <4>2, <4>3
    <3>2. QED
      BY <3>1
  <2>7. AnswerInv'
    BY <1>1, <1>4, <1>6, <1>11, <2>1, <2>2, <2>3, <2>4, <2>5, <2>6 DEF AnswerInv
  <2>8. QED
    BY <1>3, <2>7 DEF Agreement
<1>13. CASE expected[c.tag] # None
  <2>1. early_comps' = early_comps /\ expected' = [expected EXCEPT ![c.tag] = None]
    BY <1>9, <1>13
  <2>2. \A j \in DOMAIN P : P[j].tag # c.tag
    BY <1>5, <1>13
  <2>3. expected[c.tag] = c
    BY <1>4, <1>8, <2>2 DEF In
  <2>4. mismatches' = {}
    BY <1>4, <1>9, <1>13, <2>3 DEF Wrong
  <2>5. \A t \in Tag : expected'[t] = IF t = c.tag THEN None ELSE expected[t]
    BY <1>10, <2>1
  <2>6. ASSUME NEW k \in DOMAIN answers'
        PROVE  expected'[answers'[k].tag] = answers'[k] \/ In(answers'[k], P)
    <3>1. answers'[k] \in Completion /\ answers'[k].tag \in Tag
      <4>1. \A i \in DOMAIN answers : answers[i] \in Completion
        BY <1>7
      <4>2. QED
        BY <1>8, <4>1 DEF Completion
    <3>2. expected[answers'[k].tag] = answers'[k] \/ In(answers'[k], P)
      BY <1>4, <1>8
    <3>3. QED
      BY <1>11, <2>5, <3>1, <3>2
  <2>7. \A k \in DOMAIN answers' : \A d \in early_comps' : d.tag # answers'[k].tag
    BY <1>4, <1>8, <2>1
  <2>8. \A j \in DOMAIN P : P[j] \in early_comps' \/ In(P[j], answers')
    BY <1>4, <1>11, <2>1, <2>2
  <2>9. \A t \in Expected' : \E k \in DOMAIN answers' : answers'[k].tag = t
    <3>1. ASSUME NEW t \in Expected'
          PROVE  \E k \in DOMAIN answers' : answers'[k].tag = t
      <4>1. t \in Expected /\ t # c.tag
        BY <2>5, <3>1 DEF Expected
      <4>2. PICK k \in DOMAIN answers : answers[k].tag = t
        BY <1>4, <4>1
      <4>3. k # 1
        BY <1>8, <4>1, <4>2
      <4>4. QED
        BY <1>8, <4>2, <4>3
    <3>2. QED
      BY <3>1
  <2>10. AnswerInv'
    BY <1>1, <1>4, <1>6, <1>11, <2>1, <2>4, <2>6, <2>7, <2>8, <2>9 DEF AnswerInv
  <2>11. QED
    BY <1>3, <2>10 DEF Agreement
<1>14. QED
  BY <1>12, <1>13
-----------------------------------------------------------------------------
(* The scoreboard is right about an L1D that is right.                     *)

LEMMA InitAgrees == Init => AgreeInv
<1> SUFFICES ASSUME Init PROVE AgreeInv
  OBVIOUS
<1> USE DEF Init, GoldenInit
<1>1. \A b \in Block : Tracking(b) = {}
  BY DEF Tracking, Active
<1>2. \A w \in Way, s \in Set : tag_array[w][s].valid = FALSE /\ dut_array[w][s] = None
  OBVIOUS
<1>3. WaitInv
  BY <1>1 DEF WaitInv
<1>4. ValueInv
  BY <1>1 DEF ValueInv
<1>5. VictimInv
  BY <1>1 DEF VictimInv
<1>6. HeldInv
  BY <1>2 DEF HeldInv
<1>7. OneWayInv
  BY <1>2 DEF OneWayInv
<1>8. PlruInv
  BY DEF PlruInv
<1>9. AnswerInv
  BY DEF AnswerInv, Pushed, Expected
<1>10. QED
  BY <1>3, <1>4, <1>5, <1>6, <1>7, <1>8, <1>9, InitIInv DEF AgreeInv, Agreement, CacheInv

LEMMA StepAgrees == AgreeInv /\ [Next]_vars => AgreeInv'
<1> SUFFICES ASSUME AgreeInv, [Next]_vars PROVE AgreeInv'
  OBVIOUS
<1>1. IInv'
  BY StepIInv DEF AgreeInv
<1>2. CASE UNCHANGED vars
  <2>1. UNCHANGED << tag_array, data_array, plru_bits, mshr, legacy_mem, expected, early_comps,
                     mismatches, overlapped, forgotten, issued, memory, dut_array, dut_plru,
                     dut_mshr, dut_line, answers, fill_event >>
    BY <1>2 DEF vars, goldenVars, scoreboardVars, dutVars, historyVars
  <2>2. ASSUME Agreement PROVE Agreement'
    <3> USE DEF Agreement, CacheInv, Tracking, Active, Filling
    <3>1. WaitInv'
      BY <2>1, <2>2 DEF WaitInv
    <3>2. ValueInv'
      BY <2>1, <2>2 DEF ValueInv
    <3>3. VictimInv'
      BY <2>1, <2>2 DEF VictimInv, DutWays
    <3>4. HeldInv'
      BY <2>1, <2>2 DEF HeldInv
    <3>5. OneWayInv'
      BY <2>1, <2>2 DEF OneWayInv, DutWays
    <3>6. PlruInv'
      BY <2>1, <2>2 DEF PlruInv
    <3>7. AnswerInv'
      <4>1. Pushed' = Pushed /\ Expected' = Expected
        BY <2>1 DEF Pushed, FillPushes, Expected
      <4>2. AnswerInv
        BY <2>2
      <4>3. QED
        BY <2>1, <4>1, <4>2 DEF AnswerInv
    <3>8. QED
      BY <3>1, <3>2, <3>3, <3>4, <3>5, <3>6, <3>7
  <2>3. QED
    BY <1>1, <2>1, <2>2 DEF AgreeInv
<1>3. QED
  BY <1>1, <1>2, WriteReqAgrees, DutFillsAgrees, WriteFillAgrees, WriteCompAgrees
     DEF AgreeInv, Next

\* When the L1D has answered everything, nothing is left.
LEMMA AgreedReport ==
  ASSUME IInv, Agreement, Quiet
  PROVE  early_comps = {} /\ Expected = {} /\ Waiting = {}
<1>1. answers = << >> /\ fill_event = None /\ Fetched = {}
  BY DEF Quiet
<1>2. early_comps = {} /\ Expected = {}
  BY <1>1 DEF Agreement, AnswerInv, Pushed, In
<1>3. \A b \in Block : Tracking(b) = {}
  BY <1>1, FetchedTracked DEF Agreement, CacheInv, Filling
<1>4. ASSUME NEW m \in Mshr, NEW k \in DOMAIN mshr[m].entries
      PROVE  FALSE
  <2>1. GoldenTypeOK /\ mshr[m].entries \in Seq(Request)
    BY MshrTypes, TypesSplit DEF IInv
  <2>2. mshr[m].entries # << >> /\ 1 \in DOMAIN mshr[m].entries
    BY <1>4, <2>1
  <2>3. mshr[m].entries[1].paddr.block \in Block
    BY <2>1, <2>2, EntryTags DEF Request, Address
  <2>4. QED
    BY <1>3, <2>2, <2>3 DEF Tracking, Active
<1>5. Waiting = {}
  BY <1>4 DEF Waiting
<1>6. QED
  BY <1>2, <1>5

\* Between fills the caches are the same.
LEMMA AgreedCache ==
  ASSUME IInv, Agreement, fill_event = None
  PROVE  /\ \A b \in Block :
               /\ HitWays(b) \subseteq DutWays(b)
               /\ (\A f \in Fetched : SetOf[f] # SetOf[b]) => HitWays(b) = DutWays(b)
               /\ \A w \in HitWays(b) : data_array[w][SetOf[b]] = memory[b]
         /\ legacy_mem = memory
<1>1. Fetched = {b \in Block : Tracking(b) # {}}
  BY FetchedTracked DEF Agreement, CacheInv, Filling
<1>2. ASSUME NEW b \in Block
      PROVE  /\ HitWays(b) \subseteq DutWays(b)
             /\ \A w \in HitWays(b) : data_array[w][SetOf[b]] = memory[b]
  <2>1. SetOf[b] \in Set
    BY GoldenAssumption
  <2>2. QED
    BY <2>1 DEF Agreement, CacheInv, HeldInv, HitWays, DutWays
<1>3. ASSUME NEW b \in Block, \A f \in Fetched : SetOf[f] # SetOf[b]
      PROVE  HitWays(b) = DutWays(b)
  <2>1. \A c \in Block : Tracking(c) # {} => SetOf[c] # SetOf[b]
    BY <1>1, <1>3
  <2>2. DutWays(b) # {} => HitWays(b) # {}
    BY <2>1, HitWaysAgree
  <2>3. \A w \in HitWays(b) : HitWays(b) = {w} /\ DutWays(b) = {w}
    BY <2>1, HitWaysAgree
  <2>4. QED
    BY <2>2, <2>3
<1>4. legacy_mem = memory
  BY DEF Agreement, CacheInv, ValueInv
<1>5. QED
  BY <1>2, <1>3, <1>4

\* As long as no set has seen another block while a fill for it was due, the golden
\* model and the L1D agree on caches, values, waiting requests and answers.
THEOREM GoldenAgreesWithL1d == Spec => []AgreeInv
  BY InitAgrees, StepAgrees, PTL DEF Spec

\* Unless a set saw another block while a fill for it was due, the scoreboard never
\* reports a completion of an L1D that returns the right values.
THEOREM ScoreboardRaisesNoFalseAlarm == Spec => []NoFalseAlarm
<1>1. AgreeInv => NoFalseAlarm
  BY DEF AgreeInv, Agreement, AnswerInv, NoFalseAlarm
<1>2. QED
  BY InitAgrees, StepAgrees, <1>1, PTL DEF Spec

\* Nor does its golden model give up a request, for want of an MSHR or of a place.
THEOREM GoldenForgetsNothing == Spec => []NothingForgotten
<1>1. AgreeInv => NothingForgotten
  BY DEF AgreeInv, Agreement, AnswerInv, NothingForgotten
<1>2. QED
  BY InitAgrees, StepAgrees, <1>1, PTL DEF Spec

\* And when the L1D has answered everything, the final report is empty.
THEOREM FinalReportClean == Spec => []CleanReport
<1>1. AgreeInv => CleanReport
  BY AgreedReport DEF AgreeInv, CleanReport
<1>2. QED
  BY InitAgrees, StepAgrees, <1>1, PTL DEF Spec

\* For then the golden cache is the L1D's, block by block and way by way, but for the
\* victims it gives up early.
THEOREM GoldenCacheFollows == Spec => []SameCache
<1>1. AgreeInv => SameCache
  BY AgreedCache DEF AgreeInv, SameCache
<1>2. QED
  BY InitAgrees, StepAgrees, <1>1, PTL DEF Spec
=============================================================================
