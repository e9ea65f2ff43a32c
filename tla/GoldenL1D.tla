----------------------------- MODULE GoldenL1D -----------------------------
(***************************************************************************)
(* uvm/ref_model.cpp: the golden model of the L1D that the scoreboard asks *)
(* what each completion must be.  One action per case of                   *)
(* l1d_model_request and of l1d_model_fill.                                *)
(*                                                                         *)
(* The scoreboard pops `completions' in the handler that filled it, so an  *)
(* action gives what it pushes as an operator (HitPushes, ...) instead of  *)
(* keeping a queue that is empty between handlers.  An address is a block  *)
(* and a word; 0 is what memory holds before any store.                    *)
(***************************************************************************)
EXTENDS Integers, Sequences, FiniteSetsExt

CONSTANTS Block, Word, Value, Tag,
          Set, SetOf,        \* the sets, and the set of each block (get_set)
          MSHR_COUNT, MSHR_QUEUE_SIZE

ASSUME GoldenAssumption ==
    /\ 0 \in Value
    /\ SetOf \in [Block -> Set]
    /\ MSHR_COUNT \in Nat \ {0} /\ MSHR_QUEUE_SIZE \in Nat \ {0}

Way == 0 .. 2
Mshr == 0 .. MSHR_COUNT - 1
Address == [block : Block, word : Word]
Line == [Word -> Value]
Request == [paddr : Address, we : BOOLEAN, data : Value, proc_tag : Tag]
Completion == [tag : Tag, data : Value, is_write : BOOLEAN]

VARIABLES
    tag_array,      \* per way and set: valid, dirty, tag
    data_array,     \* per way and set: the line
    plru_bits,      \* per set: the ways whose bit is set
    mshr,           \* the requests that wait, and the way chosen for the line
    legacy_mem      \* the flat map, mem_read's default for what it lacks

goldenVars == << tag_array, data_array, plru_bits, mshr, legacy_mem >>

\* A tag is kept as the block it stands for; an entry that is not valid has any.
GoldenTypeOK ==
    /\ tag_array \in [Way -> [Set -> [valid : BOOLEAN, dirty : BOOLEAN, tag : Block]]]
    /\ data_array \in [Way -> [Set -> Line]]
    /\ plru_bits \in [Set -> SUBSET Way]
    /\ mshr \in [Mshr -> [entries : Seq(Request), victim_way : Way]]
    /\ legacy_mem \in [Block -> Line]

\* l1d_model_reset.
GoldenInit ==
    /\ \E b \in Block :
           tag_array = [w \in Way |-> [s \in Set |-> [valid |-> FALSE, dirty |-> FALSE, tag |-> b]]]
    /\ data_array = [w \in Way |-> [s \in Set |-> [i \in Word |-> 0]]]
    /\ plru_bits = [s \in Set |-> {}]
    /\ mshr = [m \in Mshr |-> [entries |-> << >>, victim_way |-> 0]]
    /\ legacy_mem = [b \in Block |-> [i \in Word |-> 0]]

-----------------------------------------------------------------------------
plru_victim(bits) == IF 0 \notin bits THEN 0 ELSE IF 1 \notin bits THEN 1 ELSE 2

\* Mutant: the bits are indexed from the other end, one too far.
plru_update_reversed(bits, w) == bits \cup {3 - w}

\* The bits after a use of way w: when all are set only w's stays.
plru_update(bits, w) == IF bits \cup {w} = Way THEN {w} ELSE bits \cup {w}

HitWays(b) == {w \in Way : tag_array[w][SetOf[b]].valid /\ tag_array[w][SetOf[b]].tag = b}

Active(m) == mshr[m].entries # << >>

\* The MSHR that fetches block b, by its first entry.
Tracking(b) == {m \in Mshr : Active(m) /\ mshr[m].entries[1].paddr.block = b}
FreeMshrs == {m \in Mshr : ~Active(m)}

\* Stores reach the flat map at once.
StoreToLegacy(r) ==
    IF r.we THEN [legacy_mem EXCEPT ![r.paddr.block][r.paddr.word] = r.data] ELSE legacy_mem

\* The stores of a sequence of requests to word i, by their places.
StoresTo(entries, i) == {k \in DOMAIN entries : entries[k].we /\ entries[k].paddr.word = i}

\* Word i after the stores of the sequence, with `old' before them.
AfterStores(entries, i, old) ==
    IF StoresTo(entries, i) = {} THEN old ELSE entries[Max(StoresTo(entries, i))].data

-----------------------------------------------------------------------------
\* l1d_model_request: the block is valid in some way.
Hit(r) ==
    LET s == SetOf[r.paddr.block]
        w == Min(HitWays(r.paddr.block))
    IN  /\ HitWays(r.paddr.block) # {}
        /\ plru_bits' = [plru_bits EXCEPT ![s] = plru_update(@, w)]
        /\ data_array' = IF r.we THEN [data_array EXCEPT ![w][s][r.paddr.word] = r.data]
                         ELSE data_array
        /\ tag_array' = IF r.we THEN [tag_array EXCEPT ![w][s].dirty = TRUE] ELSE tag_array
        /\ legacy_mem' = StoreToLegacy(r)
        /\ UNCHANGED mshr

HitPushes(r) ==
    LET line == data_array[Min(HitWays(r.paddr.block))][SetOf[r.paddr.block]]
    IN  << [tag |-> r.proc_tag, data |-> IF r.we THEN 0 ELSE line[r.paddr.word],
            is_write |-> r.we] >>

SecondaryMissOf(r) == HitWays(r.paddr.block) = {} /\ Tracking(r.paddr.block) # {}

\* A load that finds a store to its address among the waiting requests.
Forwards(r) ==
    SecondaryMissOf(r) /\ ~r.we
    /\ StoresTo(mshr[Min(Tracking(r.paddr.block))].entries, r.paddr.word) # {}

\* Mutant: the oldest store is forwarded.
ForwardPushes_oldest(r) ==
    LET entries == mshr[Min(Tracking(r.paddr.block))].entries
    IN  << [tag |-> r.proc_tag, is_write |-> FALSE,
            data |-> entries[Min(StoresTo(entries, r.paddr.word))].data] >>

\* The youngest store is forwarded.
ForwardPushes(r) ==
    << [tag |-> r.proc_tag, is_write |-> FALSE,
        data |-> AfterStores(mshr[Min(Tracking(r.paddr.block))].entries, r.paddr.word, 0)] >>

Forward(r) == Forwards(r) /\ UNCHANGED goldenVars

\* Mutant: one place of the queue is not used.
HasRoom_off(m) == Len(mshr[m].entries) < MSHR_QUEUE_SIZE - 1

HasRoom(m) == Len(mshr[m].entries) < MSHR_QUEUE_SIZE

\* Any other request for a block being fetched waits; a full queue drops it.
Secondary(r) ==
    LET m == Min(Tracking(r.paddr.block))
    IN  /\ SecondaryMissOf(r) /\ ~Forwards(r)
        /\ mshr' = IF HasRoom(m) THEN [mshr EXCEPT ![m].entries = Append(@, r)] ELSE mshr
        /\ legacy_mem' = StoreToLegacy(r)
        /\ UNCHANGED << tag_array, data_array, plru_bits >>

PrimaryMissOf(r) == HitWays(r.paddr.block) = {} /\ Tracking(r.paddr.block) = {}

\* The way the line will take is chosen now and emptied now; what is dirty in it
\* goes to the flat map, over any store made to that map since.
Primary(r) ==
    LET s == SetOf[r.paddr.block]
        w == plru_victim(plru_bits[s])
        victim == tag_array[w][s]
        stored == StoreToLegacy(r)
    IN  /\ PrimaryMissOf(r) /\ FreeMshrs # {}
        /\ mshr' = [mshr EXCEPT ![Min(FreeMshrs)] = [entries |-> << r >>, victim_way |-> w]]
        /\ legacy_mem' = IF victim.valid /\ victim.dirty
                         THEN [stored EXCEPT ![victim.tag] = data_array[w][s]] ELSE stored
        /\ tag_array' = [tag_array EXCEPT ![w][s].valid = FALSE]
        /\ UNCHANGED << data_array, plru_bits >>

\* "All MSHRs full": an error message, and the request is forgotten.
NoFreeMshr(r) ==
    /\ PrimaryMissOf(r) /\ FreeMshrs = {}
    /\ legacy_mem' = StoreToLegacy(r)
    /\ UNCHANGED << tag_array, data_array, plru_bits, mshr >>

\* What a request pushes, and whether the model loses it.
RequestPushes(r) ==
    IF HitWays(r.paddr.block) # {} THEN HitPushes(r)
    ELSE IF Forwards(r) THEN ForwardPushes(r) ELSE << >>

Forgets(r) ==
    \/ PrimaryMissOf(r) /\ FreeMshrs = {}
    \/ SecondaryMissOf(r) /\ ~Forwards(r) /\ ~HasRoom(Min(Tracking(r.paddr.block)))

l1d_model_request(r) == Hit(r) \/ Forward(r) \/ Secondary(r) \/ Primary(r) \/ NoFreeMshr(r)

-----------------------------------------------------------------------------
\* install_line.
Installed(b, w, dirty) ==
    [tag_array EXCEPT ![w][SetOf[b]] = [valid |-> TRUE, dirty |-> dirty, tag |-> b]]

\* Mutant: the stores that wait are not played back into the line.
PlayedBack_clean(entries, line) == line

\* The line after the stores that wait, in order.
PlayedBack(entries, line) == [i \in Word |-> AfterStores(entries, i, line[i])]

\* l1d_model_fill for a block an MSHR tracks.
FillTracked(b, line) ==
    LET m == Min(Tracking(b))
        entries == mshr[m].entries
        w == mshr[m].victim_way
        s == SetOf[b]
    IN  /\ Tracking(b) # {}
        /\ data_array' = [data_array EXCEPT ![w][s] = PlayedBack(entries, line)]
        /\ tag_array' = Installed(b, w, \E k \in DOMAIN entries : entries[k].we)
        /\ plru_bits' = [plru_bits EXCEPT ![s] = plru_update(@, w)]
        /\ mshr' = [mshr EXCEPT ![m].entries = << >>]
        /\ legacy_mem' = [legacy_mem EXCEPT ![b] = PlayedBack(entries, @)]

\* Mutant: only the request that caused the fill is answered.
FillPushes_oldest(b, line) ==
    IF Tracking(b) = {} THEN << >>
    ELSE LET e == mshr[Min(Tracking(b))].entries[1]
         IN  << [tag |-> e.proc_tag, is_write |-> e.we,
                 data |-> IF e.we THEN 0 ELSE line[e.paddr.word]] >>

\* Each waiting request is answered from the line as the ones before it left it.
FillPushes(b, line) ==
    LET entries == IF Tracking(b) = {} THEN << >> ELSE mshr[Min(Tracking(b))].entries
    IN  [k \in DOMAIN entries |->
            LET e == entries[k]
            IN  [tag |-> e.proc_tag, is_write |-> e.we,
                 data |-> IF e.we THEN 0
                          ELSE AfterStores(SubSeq(entries, 1, k), e.paddr.word,
                                           line[e.paddr.word])]]

\* "No MSHR match": the line is installed in the PLRU victim, whatever it holds.
FillUntracked(b, line) ==
    LET s == SetOf[b]
        w == plru_victim(plru_bits[s])
    IN  /\ Tracking(b) = {}
        /\ data_array' = [data_array EXCEPT ![w][s] = line]
        /\ tag_array' = Installed(b, w, FALSE)
        /\ plru_bits' = [plru_bits EXCEPT ![s] = plru_update(@, w)]
        /\ UNCHANGED << mshr, legacy_mem >>

l1d_model_fill(b, line) == FillTracked(b, line) \/ FillUntracked(b, line)
=============================================================================
