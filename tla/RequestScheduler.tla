-------------------------- MODULE RequestScheduler --------------------------
(***************************************************************************)
(* request_scheduler (mem_scheduler.sv) with its queues, bank states and   *)
(* refresh, and the ready bit last_level_cache.sv derives from its output. *)
(*                                                                         *)
(* The LLC's cache presents requests when it likes, numbered as they come. *)
(* A request carries the cycle it came in; the scheduler only compares two *)
(* of these, so the number stands for it, and 0 is that of a slot never    *)
(* written.  Column and data are left out.  command_sender appears as the  *)
(* bit `bursting', which may be high once a read command has gone out.     *)
(***************************************************************************)
EXTENDS AutoRefresh, Sequences, FiniteSetsExt

CONSTANTS
    ACTIVATION_LATENCY, PRECHARGE_LATENCY, QUEUE_SIZE,
    Address,        \* the pairs <<bank_idx, row>> the LLC uses
    Key(_, _, _),   \* of a request's number (for its column and data), bank and row:
                    \* its bits CYCLE_START_BIT .. CYCLE_END_BIT, which hold bank, row,
                    \* column and the top of the data
    Horizon,        \* bound: cycle_counter is followed up to here
    MaxRequests,    \* bound: requests of the LLC
    MaxRefreshes    \* bound: how often the refresh counter ends

ASSUME SchedulerAssumption ==
    /\ BANK_GROUPS \in Nat \ {0} /\ BANKS_PER_GROUP \in Nat \ {0} /\ ROWS \in Nat \ {0}
    /\ ACTIVATION_LATENCY \in Nat /\ PRECHARGE_LATENCY \in Nat
    /\ QUEUE_SIZE \in Nat \ {0}
    /\ REFRESH_STAGES \in Nat /\ STAGES \in Nat /\ 0 < REFRESH_STAGES /\ REFRESH_STAGES < STAGES
    /\ Address \subseteq (0 .. BANK_GROUPS * BANKS_PER_GROUP - 1) \X (0 .. ROWS - 1)
    /\ Horizon \in Nat /\ MaxRequests \in Nat /\ MaxRefreshes \in Nat

\* The stages a step asks for its precharge outlast an activation (12 and 8).
ASSUME StagesAssumption == ACTIVATION_LATENCY + 2 <= REFRESH_STAGES

VARIABLES
    cycle_counter,
    since_read, since_write,    \* cycle_counter - last_read, - last_write, up to ReadGap, WriteGap
    queues,                     \* by bank and kind of command
    banks,                      \* sdram_bank_state
    refresh, refreshes,         \* auto_refresh; how often it has begun
    out,                        \* cmd_out, bank_out, row_out, under valid_out: at most one
    mem_bus_ready,              \* last_level_cache: !valid_out of the edge before
    requests,                   \* what the LLC has asked for, in order
    sent,                       \* how often the column command of each was sent (up to 2)
    row_command,                \* history: by bank, the last activate or precharge sent
                                \* for a request, and its age
    mishaps                     \* history: what has gone wrong in the books

schedVars == << cycle_counter, since_read, since_write, queues, banks, out, mem_bus_ready >>
vars == << schedVars, refresh, refreshes, requests, sent, row_command,
           mishaps >>

AllBanks == 0 .. BANK_GROUPS * BANKS_PER_GROUP - 1
Banks == {a[1] : a \in Address}
Row == 0 .. ROWS - 1
Id == 1 .. MaxRequests
Kind == {"read", "write", "activate", "precharge"}

Request == [bank : Banks, row : Row, write : BOOLEAN]
NoRequest == 0
Command == [kind : Kind, bank : AllBanks, row : Row, id : Id \cup {0}]

CycleField(i) == IF i = NoRequest THEN 0 ELSE Key(i, requests[i].bank, requests[i].row)

Queue == INSTANCE MemCmdQueue WITH Request <- Id \cup {NoRequest}
State == INSTANCE SdramBankState

ReadGap == 5
WriteGap == 4
Settled == ACTIVATION_LATENCY + PRECHARGE_LATENCY   \* ages are followed up to here

TypeOK ==
    /\ cycle_counter \in 0 .. Horizon
    /\ since_read \in 0 .. ReadGap /\ since_write \in 0 .. WriteGap
    /\ queues \in [Banks -> [Kind -> Queue!CmdQueue]]
    /\ banks \in [Banks -> State!Bank]
    /\ refresh \in Refresh /\ refreshes \in 0 .. MaxRefreshes
    /\ out \in {{}} \cup {{c} : c \in Command}
    /\ mem_bus_ready \in BOOLEAN
    /\ requests \in Seq(Request) /\ Len(requests) <= MaxRequests
    /\ sent \in [Id -> 0 .. 2]
    /\ row_command \in [Banks -> [kind : {"activate", "precharge"}, age : 0 .. Settled]]
    /\ mishaps \subseteq {"crowded", "crossed", "overlooked", "late", "refreshed"}

Init ==
    /\ cycle_counter = 0 /\ since_read = 0 /\ since_write = 0
    /\ queues = [b \in Banks |-> [k \in Kind |-> Queue!EmptyCmdQueue]]
    /\ banks = [b \in Banks |-> State!ResetBank]
    /\ refresh = ResetRefresh /\ refreshes = 0
    /\ out = {} /\ mem_bus_ready = TRUE
    /\ requests = << >> /\ sent = [i \in Id |-> 0]
    /\ row_command = [b \in Banks |-> [kind |-> "precharge", age |-> Settled]]
    /\ mishaps = {}

\* Counts edges up to a limit.
Older(age, gap) == IF age = gap THEN gap ELSE age + 1

-----------------------------------------------------------------------------
\* Which command goes out.
ReadyTop(b, k) == Queue!ready_top(queues[b][k])
RowOf(i) == IF i = NoRequest THEN 0 ELSE requests[i].row
PendingTop(b, k) == Queue!pending_top(queues[b][k])

\* A read came in after the write at the top of its bank's queue (which keeps
\* the last content of its slot when there is no write).
read_prio ==
    \E b \in Banks : /\ ~Queue!ready_empty(queues[b]["read"])
                     /\ ReadyTop(b, "read") > ReadyTop(b, "write")

\* Mutant: the row is not compared.
Sendable_any_row(b, k) == ~Queue!ready_empty(queues[b][k]) /\ ~banks[b].blocked

\* process_bank_commands: the top may be sent, for a column command if its row is
\* the one last activated (open or not).
Sendable(b, k) ==
    /\ ~Queue!ready_empty(queues[b][k])
    /\ ~banks[b].blocked
    /\ k \in {"read", "write"} => RowOf(ReadyTop(b, k)) = banks[b].active_row

\* The lowest bank with a command of this kind to send (at most one).
Send(k) ==
    LET able == {b \in Banks : Sendable(b, k)}
    IN  IF able = {} THEN {} ELSE {[kind |-> k, bank |-> Min(able)]}

\* last_read < cycle_counter - 4, unsigned: true as well while the difference wraps.
MayRead == cycle_counter < 4 \/ since_read = ReadGap

ReadTurn == mem_bus_ready /\ ~refr_out(refresh) /\ read_prio /\ MayRead

\* Mutant: the other commands do not wait for the reads.
OtherTurn_anyway(bursting) ==
    mem_bus_ready /\ ~refr_out(refresh) /\ ~bursting /\ since_write = WriteGap

OtherTurn(bursting) ==
    mem_bus_ready /\ ~refr_out(refresh) /\ ~read_prio /\ ~bursting /\ since_write = WriteGap

Chosen(bursting) ==
    IF ReadTurn THEN Send("read")
    ELSE IF ~OtherTurn(bursting) THEN {}
    ELSE IF Send("write") # {} THEN Send("write")
    ELSE IF Send("activate") # {} THEN Send("activate")
    ELSE Send("precharge")

-----------------------------------------------------------------------------
\* Where an incoming request (a set of at most one) goes: the queue of its bank.
Route(r) ==
    LET b == banks[r.bank]
    IN  IF b.ready THEN "activate"
        ELSE IF ~(b.active /\ b.active_row = r.row) THEN "precharge"
        ELSE IF r.write THEN "write" ELSE "read"

Latency(k) == CASE k = "precharge" -> PRECHARGE_LATENCY
                [] k = "activate" -> ACTIVATION_LATENCY
                [] OTHER -> 1

\* The stage a pending request moves on to ("" when it is done).
Onward(k, i) == CASE k = "precharge" -> "activate"
                  [] k = "activate" -> IF requests[i].write THEN "write" ELSE "read"
                  [] OTHER -> ""

\* The requests that want to enter a queue at this edge: those promoted from the
\* stage before, and the incoming one, which goes first.
Promotion(b, k) ==
    [bank |-> b, from |-> k, to |-> Onward(k, PendingTop(b, k)), req |-> PendingTop(b, k)]

Promotions ==
    {Promotion(q[1], q[2]) :
        q \in {q \in Banks \X Kind :
                   Queue!promote(queues[q[1]][q[2]], Latency(q[2]), cycle_counter)}}

Arrival(incoming) ==
    {[bank |-> r.bank, from |-> "", to |-> Route(r), req |-> Len(requests) + 1] : r \in incoming}

Into(moves, b, k) == {m \in moves : m.bank = b /\ m.to = k}

\* Mutant: a promoted request stays where it is.
Leaves_never(promoted, arriving, b, k) == FALSE

\* Mutant: a promotion does not wait for an incoming request.
Leaves_always(promoted, arriving, b, k) == \E m \in promoted : m.bank = b /\ m.from = k

\* A promotion whose queue an incoming request enters waits.
Leaves(promoted, arriving, b, k) ==
    \E m \in promoted : m.bank = b /\ m.from = k /\ Into(arriving, b, m.to) = {}

QueueAfter(promoted, arriving, chosen, b, k) ==
    LET into == IF Into(arriving, b, k) # {} THEN Into(arriving, b, k) ELSE Into(promoted, b, k)
    IN  Queue!CmdQueueEdge(queues[b][k], into # {},
                           IF into = {} THEN NoRequest ELSE (CHOOSE m \in into : TRUE).req,
                           [kind |-> k, bank |-> b] \in chosen,
                           Leaves(promoted, arriving, b, k))

BankAfter(b, chosen) ==
    State!BankEdge(banks[b],
        \/ refr_out(refresh) /\ refr_bank_idx(refresh) = b
        \/ \E c \in chosen : c.bank = b /\ c.kind = "precharge",
        \E c \in chosen : c.bank = b /\ c.kind = "activate",
        RowOf(ReadyTop(b, "activate")))

\* The output registers.  A refresh leaves cmd_out at its default, which is READ.
Output(chosen) ==
    IF refr_out(refresh)
    THEN {[kind |-> "read", bank |-> refr_bank_idx(refresh), row |-> refresh.row, id |-> 0]}
    ELSE {[kind |-> c.kind, bank |-> c.bank, row |-> RowOf(ReadyTop(c.bank, c.kind)),
           id |-> ReadyTop(c.bank, c.kind)] : c \in chosen}

-----------------------------------------------------------------------------
\* History: what goes wrong in the books.  A ring takes a request on the edge it
\* gives one, or while full.
Crowded(promoted, arriving, chosen) ==
    \/ \E m \in promoted \cup arriving :
          \/ [kind |-> m.to, bank |-> m.bank] \in chosen
          \/ m.to # "" /\ Queue!full(queues[m.bank][m.to].ready)
    \/ \E c \in chosen :
          \/ Queue!full(queues[c.bank][c.kind].pending)
          \/ Leaves(promoted, arriving, c.bank, c.kind)

Column == {"read", "write"}
Closes(chosen, b) == [kind |-> "precharge", bank |-> b] \in chosen

\* A request for the open row arrives on the edge at which the row is closed.
Crossed(moves, chosen) == \E m \in moves : m.to \in Column /\ Closes(chosen, m.bank)

\* A row is closed although a read of it waits.
Overlooked(chosen) ==
    \E b \in Banks : Closes(chosen, b) /\ ~Queue!ready_empty(queues[b]["read"])

\* A request is promoted to its column command when its row is no longer open.
Late(promoted) ==
    \E m \in promoted : /\ m.to \in Column
                        /\ ~banks[m.bank].active \/ banks[m.bank].active_row # RowOf(m.req)

RowCommandAfter(b, chosen) ==
    LET sent_now == {c \in chosen : c.bank = b /\ c.kind \in {"activate", "precharge"}}
    IN  IF sent_now # {} THEN [kind |-> (CHOOSE c \in sent_now : TRUE).kind, age |-> 0]
        ELSE [row_command[b] EXCEPT !.age = Older(@, Settled)]

Remember(promoted, arriving, chosen) ==
    mishaps' = mishaps \cup
        {m \in {"crowded", "crossed", "overlooked", "late", "refreshed"} :
            CASE m = "crowded" -> Crowded(promoted, arriving, chosen)
              [] m = "crossed" -> Crossed(promoted \cup arriving, chosen)
              [] m = "overlooked" -> Overlooked(chosen)
              [] m = "late" -> Late(promoted)
              [] m = "refreshed" -> refr_out(refresh)}

ClockEdge(incoming, bursting, due) ==
    LET chosen == Chosen(bursting)
        promoted == Promotions
        arriving == Arrival(incoming)
    IN  /\ cycle_counter' = Older(cycle_counter, Horizon)
        /\ since_read' = IF ReadTurn THEN 1 ELSE Older(since_read, ReadGap)
        /\ since_write' = IF \E c \in chosen : c.kind = "write" THEN 1
                          ELSE Older(since_write, WriteGap)
        /\ queues' = [b \in Banks |-> [k \in Kind |-> QueueAfter(promoted, arriving, chosen, b, k)]]
        /\ banks' = [b \in Banks |-> BankAfter(b, chosen)]
        /\ out' = Output(chosen)
        /\ mem_bus_ready' = (out = {})
        /\ refresh' = RefreshEdge(refresh, due)
        /\ refreshes' = IF due THEN refreshes + 1 ELSE refreshes
        /\ requests' = IF incoming = {} THEN requests
                       ELSE Append(requests, CHOOSE r \in incoming : TRUE)
        /\ sent' = [i \in Id |-> IF sent[i] < 2 /\ \E c \in Output(chosen) :
                                      c.id = i /\ c.kind \in {"read", "write"}
                                 THEN sent[i] + 1 ELSE sent[i]]
        /\ row_command' = [b \in Banks |-> RowCommandAfter(b, chosen)]
        /\ Remember(promoted, arriving, chosen)

\* The cache above needs some edges before its first request.
Arrivals ==
    {{}} \cup (IF Len(requests) = MaxRequests \/ cycle_counter = 0 THEN {}
               ELSE {{[bank |-> a[1], row |-> a[2], write |-> w]} :
                        a \in Address, w \in BOOLEAN})

\* command_sender bursts for what it takes for a read, a refresh included.
Bursting == IF \/ \E i \in Id : sent[i] > 0 /\ ~requests[i].write
               \/ "refreshed" \in mishaps
            THEN BOOLEAN ELSE {FALSE}

RefreshDue == IF refreshes < MaxRefreshes /\ ~refresh.in_progress THEN BOOLEAN ELSE {FALSE}

Next == \E incoming \in Arrivals, bursting \in Bursting, due \in RefreshDue :
            ClockEdge(incoming, bursting, due)

Spec == Init /\ [][Next]_vars

-----------------------------------------------------------------------------
\* The positions of a request: bank, kind of command and place behind the head.
InReady(i) == {p \in Banks \X Kind \X Queue!RingSlot :
                   p[3] \in Queue!Positions(queues[p[1]][p[2]].ready, i)}
InPending(i) == {p \in Banks \X Kind \X Queue!RingSlot :
                     p[3] \in Queue!Positions(queues[p[1]][p[2]].pending, i)}

\* A request is at one position at most of the eight rings of its bank, never in two
\* rings and never twice in one, although sending, promotion and arrival move it on
\* conditions of their own.
InOnePlace == \A i \in Id : Cardinality(InReady(i)) + Cardinality(InPending(i)) <= 1

\* The column command of a request is sent at most once.
SentOnce == \A i \in Id : sent[i] <= 1

\* No request disappears, as long as no ring took a request on the edge it gave
\* one, or while full.
NoneLost ==
    "crowded" \notin mishaps =>
        \A i \in DOMAIN requests : InReady(i) \cup InPending(i) # {} \/ sent[i] > 0

\* docs/llc_spec.md 6.2: a bank must be activated before access.  A read or write
\* goes to a bank whose open row is its own, but for four ways to get it wrong:
\* arrival crossing the precharge, a precharge that overlooks a read, a late
\* promotion, a refresh.
ColumnMeetsOpenRow ==
    mishaps \subseteq {"crowded"} =>
        \A c \in out : c.kind \in Column =>
            banks[c.bank].active /\ banks[c.bank].active_row = c.row

\* A refresh step asks for its precharge long enough to outlast whatever blocks the
\* bank, during which the tracker ignores it: when it stops asking, the bank is
\* closed.
RefreshCloses ==
    refresh.in_progress /\ refresh.stage = REFRESH_STAGES /\ refr_bank_idx(refresh) \in Banks
        => ~banks[refr_bank_idx(refresh)].active

\* docs/llc_spec.md 6.1.2: the promotions respect the timing.  They do not wait for
\* it; still no command for a request goes to a bank before the last row command
\* for one has taken its latency.
CommandsSpaced ==
    [][\A c \in out' : c.id # NoRequest =>
          LET last == row_command[c.bank] IN last.age >= Latency(last.kind)]_vars

\* A read that has priority and waits for a row that is not the last one activated.
Stuck(b) ==
    /\ ~Queue!ready_empty(queues[b]["read"])
    /\ ReadyTop(b, "read") > ReadyTop(b, "write")
    /\ RowOf(ReadyTop(b, "read")) # banks[b].active_row

\* Such a read is stuck: it holds back the activation it needs, and all others.
\* Only a write of its own bank that arrives after it takes the priority away.
StuckStays ==
    [][\A b \in Banks :
          Stuck(b) /\ Queue!ready_empty(queues[b]["write"]) =>
              Stuck(b)' \/ ~Queue!ready_empty(queues[b]["write"])']_vars
=============================================================================
