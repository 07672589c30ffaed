------------------------------ MODULE Trading ------------------------------
(***************************************************************************)
(* Live trading: the instance manager and the cron scan                     *)
(* (internal/saas/instance, internal/saas/cron), the hub that holds the      *)
(* agents' connections and books their reports (internal/saas/ws), and the  *)
(* agent that places orders at the exchange (internal/agent).               *)
(*                                                                          *)
(* A tick decides on the newest bar, commits the strategy's state and the   *)
(* pending orders, and then sends them.  The agent answers on the           *)
(* connection the order came on.  Amounts are abstracted: the holdings of a *)
(* portfolio are the set of the fills booked into them.                     *)
(***************************************************************************)
EXTENDS Naturals, FiniteSets, Sequences, SequencesExt

CONSTANTS
  Instances, \* strategy instances, all of one user
  Ticks,     \* goroutines that the cron scan starts
  Conns,     \* connections of the user's agent, each used once
  MaxBar,    \* bound on the newest bar
  Month,     \* bar -> month
  Faults     \* bounds, one of which holds: [crash, drop, fail, user, slow, bar, move]

ASSUME SomeBar == MaxBar \in Nat \ {0}
ASSUME MonthsCount == Month \in [1..MaxBar -> Nat \ {0}]

VARIABLES
  bar,       \* open time of the newest bar in the database
  status,    \* instance -> RUNNING, STOPPED, ERROR or DELETED
  portfolio, \* instance -> [last, fills]: last_processed_bar_time and the holdings
  macro,     \* instance -> last_macro_year_month of the runtime state, 0 when unset
  execution, \* order -> none, pending, filled or failed
  trades,    \* orders with a trade record
  tick,      \* goroutine -> its step and what it has read
  registered,\* the hub's connection of the user, or none
  serving,   \* connection -> new, stored, open or gone, as the hub's handler has it
  up,        \* connections that still carry messages
  outbox,    \* connection -> reports on their way to the hub
  handler,   \* connection -> the report its handler is booking
  agent,     \* the connection the agent uses, or none
  orders,    \* commands on their way to the agent or executing there
  left,      \* faults that may still happen
  placed,    \* history: order -> how often the exchange filled it, 2 for more
  booked,    \* history: order -> how often a fill was booked
  excused,   \* history: instances whose bar was cut short or went back
  moved      \* history: instances whose lots were transferred

database == <<status, portfolio, macro, execution, trades>>
network == <<registered, serving, up, outbox, agent>>
history == <<placed, booked, excused, moved>>
vars == <<bar, status, portfolio, macro, execution, trades, tick, registered, serving, up,
          outbox, handler, agent, orders, left, placed, booked, excused, moved>>

None == "none"
Orders == Instances \X {"MACRO", "MICRO"} \X (1..MaxBar)
Initial == <<None, "INITIAL", 0>>
NoTick == [step |-> "idle", inst |-> None, bar |-> 0, row |-> [last |-> 0, fills |-> {}],
           macro |-> 0, commands |-> <<>>]
NoRows == [i \in Instances |-> [last |-> 0, fills |-> {}]]
NoReport == [step |-> "idle", order |-> Initial, ok |-> FALSE, rows |-> NoRows]
Spend(fault) == left[fault] > 0 /\ left' = [left EXCEPT ![fault] = @ - 1]

TypeOK ==
  /\ bar \in 1..MaxBar
  /\ status \in [Instances -> {"RUNNING", "STOPPED", "ERROR", "DELETED"}]
  /\ portfolio \in [Instances -> [last : 0..MaxBar, fills : SUBSET Orders]]
  /\ macro \in [Instances -> Nat]
  /\ execution \in [Orders -> {None, "pending", "filled", "failed"}]
  /\ trades \subseteq Orders
  /\ registered \in Conns \cup {None} /\ agent \in Conns \cup {None}
  /\ serving \in [Conns -> {"new", "stored", "open", "gone"}]
  /\ up \subseteq Conns
  /\ orders \subseteq [conn : Conns, order : Orders, copy : Nat]

Init ==
  /\ bar = 1
  /\ status = [i \in Instances |-> "RUNNING"]
  /\ portfolio = NoRows
  /\ macro = [i \in Instances |-> 0]
  /\ execution = [o \in Orders |-> None]
  /\ trades = {}
  /\ tick = [t \in Ticks |-> NoTick]
  /\ registered = None
  /\ serving = [c \in Conns |-> "new"]
  /\ up = {}
  /\ outbox = [c \in Conns |-> <<>>]
  /\ handler = [c \in Conns |-> NoReport]
  /\ agent = None
  /\ orders = {}
  /\ left \in Faults
  /\ placed = [o \in Orders |-> 0]
  /\ booked = [o \in Orders |-> 0]
  /\ excused = {}
  /\ moved = {}

(***************************************************************************)
(* Bars and users.                                                          *)
(***************************************************************************)
NewBar ==
  /\ Spend("bar")
  /\ bar < MaxBar
  /\ bar' = bar + 1
  /\ UNCHANGED <<database, tick, network, handler, orders, history>>

SetStatus(i, value) ==
  /\ status' = [status EXCEPT ![i] = value]
  /\ UNCHANGED <<bar, portfolio, macro, execution, trades, tick, network, handler, orders, history>>

Start(i) == Spend("user") /\ status[i] # "DELETED" /\ SetStatus(i, "RUNNING")
Stop(i) == Spend("user") /\ status[i] = "RUNNING" /\ SetStatus(i, "STOPPED")
Delete(i) == Spend("user") /\ SetStatus(i, "DELETED")

(***************************************************************************)
(* Ticks.  The scan starts a goroutine for every running instance; one of a *)
(* previous minute, if it is slow, still runs.                              *)
(***************************************************************************)
Scan(i) ==
  /\ status[i] = "RUNNING"
  /\ \E t \in Ticks : tick[t].step = "idle"
  /\ IF \E t \in Ticks : tick[t].inst = i THEN Spend("slow") ELSE UNCHANGED left
  /\ tick' = [tick EXCEPT ![CHOOSE t \in Ticks : tick[t].step = "idle"] =
                [NoTick EXCEPT !.step = "load", !.inst = i]]
  /\ UNCHANGED <<bar, database, network, handler, orders, history>>

\* Faulty variant: the bar processed last is processed again.
StaleOrSame(latest, last) == latest < last

\* The bar has been processed.
Processed(latest, last) == latest <= last

\* Another tick of the instance is past its reads.
Overlaps(t) == \E u \in Ticks \ {t} : tick[u].inst = tick[t].inst /\ tick[u].step # "load"

\* The tick returns unless the instance runs and the bar is new; it keeps the
\* rows it read.
Load(t) ==
  LET i == tick[t].inst IN
  /\ tick[t].step = "load"
  /\ excused' = IF Overlaps(t) THEN excused \cup {i} ELSE excused
  /\ tick' = [tick EXCEPT ![t] =
                IF status[i] # "RUNNING" \/ Processed(bar, portfolio[i].last) THEN NoTick
                ELSE [@ EXCEPT !.step = "decide", !.bar = bar, !.row = portfolio[i],
                               !.macro = macro[i]]]
  /\ UNCHANGED <<bar, database, network, handler, orders, left, placed, booked, moved>>

\* The orders that Step may ask for: the monthly purchase when the month is new,
\* then the rebalancing.
Intents(t) ==
  LET due == {<<tick[t].inst, "MACRO", tick[t].bar>> : m \in {Month[tick[t].bar]} \ {tick[t].macro}}
      micro == {<<tick[t].inst, "MICRO", tick[t].bar>>}
  IN {<<>>} \cup {<<o>> : o \in due \cup micro} \cup {<<o, p>> : o \in due, p \in micro}

\* One transaction: the runtime state, the transfers of lots before a sale, which
\* write the holdings that were read, and the pending orders.
Decide(t) ==
  LET i == tick[t].inst IN
  /\ tick[t].step = "decide"
  /\ macro' = [macro EXCEPT ![i] = Month[tick[t].bar]]
  /\ \E commands \in Intents(t) :
       /\ execution' = [o \in Orders |->
                          IF o \in ToSet(commands) /\ execution[o] = None THEN "pending" ELSE execution[o]]
       /\ tick' = [tick EXCEPT ![t].step = "send", ![t].commands = commands]
       /\ \/ UNCHANGED <<portfolio, left, moved>>
          \/ /\ Spend("move")
             /\ <<i, "MICRO", tick[t].bar>> \in ToSet(commands)
             /\ portfolio' = [portfolio EXCEPT ![i].fills = tick[t].row.fills]
             /\ moved' = moved \cup {i}
  /\ UNCHANGED <<bar, status, trades, network, handler, orders, placed, booked, excused>>

\* The next command is written to the connection in the hub's map, which accepts
\* it although the other end may be gone.  It may be there already.
Send(t) ==
  LET o == Head(tick[t].commands)
      copies == {e.copy : e \in {x \in orders : x.conn = registered /\ x.order = o}}
  IN
  /\ tick[t].step = "send"
  /\ tick[t].commands # <<>>
  /\ registered # None
  /\ orders' = IF registered \notin up THEN orders
               ELSE orders \cup {[conn |-> registered, order |-> o,
                                copy |-> CHOOSE k \in 0..Cardinality(copies) : k \notin copies]}
  /\ tick' = [tick EXCEPT ![t].commands = Tail(@)]
  /\ UNCHANGED <<bar, database, network, handler, left, placed, booked, excused, moved>>

\* Without a connection the rest is left pending and the bar stays unprocessed.
NotConnected(t) ==
  /\ tick[t].step = "send"
  /\ tick[t].commands # <<>>
  /\ registered = None
  /\ tick' = [tick EXCEPT ![t] = NoTick]
  /\ UNCHANGED <<bar, database, network, handler, orders, left, history>>

\* Faulty variant: the whole row is saved as it was read.
MarkedWhole(t) == [tick[t].row EXCEPT !.last = tick[t].bar]

\* The finished tick updates last_processed_bar_time.
Marked(t) == [portfolio[tick[t].inst] EXCEPT !.last = tick[t].bar]

Mark(t) ==
  /\ tick[t].step = "send"
  /\ tick[t].commands = <<>>
  /\ portfolio' = [portfolio EXCEPT ![tick[t].inst] = Marked(t)]
  /\ tick' = [tick EXCEPT ![t] = NoTick]
  /\ UNCHANGED <<bar, status, macro, execution, trades, network, handler, orders, left, history>>

\* A statement or the market data fails: the scan marks the instance, whatever
\* its status is by now.
Fail(t) ==
  LET i == tick[t].inst IN
  /\ Spend("fail")
  /\ tick[t].step # "idle"
  /\ tick[t].step = "send" => tick[t].commands = <<>>
  /\ status' = [status EXCEPT ![i] = "ERROR"]
  /\ tick' = [tick EXCEPT ![t] = NoTick]
  /\ excused' = IF tick[t].step = "send" THEN excused \cup {i} ELSE excused
  /\ UNCHANGED <<bar, portfolio, macro, execution, trades, network, handler, orders, placed, booked, moved>>

(***************************************************************************)
(* Connections.                                                             *)
(***************************************************************************)

\* The agent has logged in and dialled; the hub has checked its token and puts
\* the connection into its map.
Connect(c) ==
  /\ agent = None
  /\ \E d \in Conns : serving[d] = "new"
  /\ c = CHOOSE d \in Conns : serving[d] = "new"
  /\ serving' = [serving EXCEPT ![c] = "stored"]
  /\ registered' = c
  /\ up' = up \cup {c}
  /\ agent' = c
  /\ UNCHANGED <<bar, database, tick, outbox, handler, orders, left, history>>

\* The connection carries nothing any more: commands that did not arrive are
\* lost, others go on, and the agent will connect again.
HangUp(c, lost) ==
  /\ up' = up \ {c}
  /\ orders' = orders \ lost
  /\ agent' = IF agent = c THEN None ELSE agent

SentOn(c) == {e \in orders : e.conn = c}

\* auth_result, and the agent's first report.  A command that was written first
\* is not the answer the agent waits for: it hangs up.
Welcome(c) ==
  /\ serving[c] = "stored"
  /\ serving' = [serving EXCEPT ![c] = "open"]
  /\ IF c \in up /\ SentOn(c) = {}
     THEN /\ outbox' = [outbox EXCEPT ![c] = Append(@, [order |-> Initial, ok |-> TRUE])]
          /\ UNCHANGED <<up, agent, orders>>
     ELSE HangUp(c, SentOn(c)) /\ UNCHANGED outbox
  /\ UNCHANGED <<bar, database, tick, registered, handler, left, history>>

\* The network drops the connection or the agent stops.
Drop(c) ==
  /\ Spend("drop")
  /\ c \in up
  /\ \E lost \in SUBSET SentOn(c) : HangUp(c, lost)
  /\ UNCHANGED <<bar, database, tick, registered, serving, outbox, handler, history>>

\* The hub's map after the handler of c has ended: the user's entry is deleted,
\* whichever connection it holds.
RegisteredAfter(c) == None

\* The handler notices, after the reports that still arrived.
HandlerEnds(c) ==
  /\ serving[c] = "open"
  /\ c \notin up
  /\ handler[c].step = "idle"
  /\ serving' = [serving EXCEPT ![c] = "gone"]
  /\ registered' = RegisteredAfter(c)
  /\ outbox' = [outbox EXCEPT ![c] = <<>>]
  /\ UNCHANGED <<bar, database, tick, up, agent, handler, orders, left, history>>

\* The server stops or crashes and starts again: ticks, handlers and the map are
\* gone, and transactions that run are rolled back.
Crash ==
  /\ Spend("crash")
  /\ tick' = [t \in Ticks |-> NoTick]
  /\ handler' = [c \in Conns |-> NoReport]
  /\ registered' = None
  /\ serving' = [c \in Conns |-> IF serving[c] = "new" THEN "new" ELSE "gone"]
  /\ up' = {}
  /\ outbox' = [c \in Conns |-> <<>>]
  /\ agent' = None
  /\ excused' = excused \cup {i \in Instances : \E t \in Ticks : tick[t].inst = i /\ tick[t].step = "send"}
  /\ UNCHANGED <<bar, database, orders, placed, booked, moved>>

(***************************************************************************)
(* The agent.                                                               *)
(***************************************************************************)

\* Anything but an answer that the order is filled counts as failed.
Outcome(filled, answered) == IF filled /\ answered THEN "filled" ELSE "failed"

\* The goroutine of a command places the order and reports on the connection of
\* the command, or nowhere.  The exchange takes an order again once the one with
\* its id is filled; it may refuse it, and its answer may be lost.
Execute(e, filled, answered) ==
  /\ serving[e.conn] # "stored"
  /\ answered \/ filled
  /\ placed' = [placed EXCEPT ![e.order] = IF filled /\ @ < 2 THEN @ + 1 ELSE @]
  /\ orders' = orders \ {e}
  /\ outbox' = [outbox EXCEPT ![e.conn] =
                  IF e.conn \in up
                  THEN Append(@, [order |-> e.order, ok |-> Outcome(filled, answered) = "filled"]) ELSE @]
  /\ UNCHANGED <<bar, database, tick, registered, serving, up, agent, handler, left, booked,
                 excused, moved>>

(***************************************************************************)
(* Reports at the hub.  A handler books one report after the other; the     *)
(* handlers of two connections run side by side.                            *)
(***************************************************************************)

\* The report is read; one of an order that is not pending is dropped.
Check(c) ==
  LET r == Head(outbox[c]) IN
  /\ serving[c] = "open"
  /\ handler[c].step = "idle"
  /\ outbox[c] # <<>>
  /\ outbox' = [outbox EXCEPT ![c] = Tail(@)]
  /\ handler' = [handler EXCEPT ![c] =
                   IF r.order # Initial /\ execution[r.order] # "pending" THEN NoReport
                   ELSE [step |-> "checked", order |-> r.order, ok |-> r.ok, rows |-> NoRows]]
  /\ UNCHANGED <<bar, database, tick, registered, serving, up, agent, orders, left, history>>

\* Another transaction has updated the execution and holds its row.
Locked(c, o) == \E d \in Conns \ {c} : handler[d].step = "read" /\ handler[d].order = o

BookFailed(c) ==
  LET o == handler[c].order IN
  /\ handler[c].step = "checked"
  /\ o # Initial
  /\ ~handler[c].ok
  /\ ~Locked(c, o)
  /\ execution' = [execution EXCEPT ![o] = "failed"]
  /\ handler' = [handler EXCEPT ![c] = NoReport]
  /\ UNCHANGED <<bar, status, portfolio, macro, trades, tick, network, orders, left, history>>

\* Faulty variant: trade records may repeat.
AnyRecord(o) == TRUE

\* The client order id of trade records is unique.
NewRecord(o) == o \notin trades

\* The execution is updated, the trade recorded and the portfolio read; a second
\* record of the order ends the transaction.  The first report of a connection is
\* about every instance of the user.
ReadPortfolio(c) ==
  LET o == handler[c].order IN
  /\ handler[c].step = "checked"
  /\ handler[c].ok
  /\ ~Locked(c, o) \/ o = Initial
  /\ handler' = [handler EXCEPT ![c] =
                   IF o = Initial \/ NewRecord(o)
                   THEN [step |-> "read", order |-> o, ok |-> TRUE, rows |-> portfolio]
                   ELSE NoReport]
  /\ UNCHANGED <<bar, database, tick, network, orders, left, history>>

\* The instances that a report is about.
About(o) == IF o = Initial THEN Instances ELSE {o[1]}

\* The row that was read, with the fill of the report.
SavedRow(c, i) == [handler[c].rows[i] EXCEPT !.fills = @ \cup (Orders \cap {handler[c].order})]

\* The whole row is saved as it was read, with the fill added.  Notes when that
\* takes back the last processed bar.
SavePortfolio(c) ==
  LET o == handler[c].order IN
  /\ handler[c].step = "read"
  /\ portfolio' = [i \in Instances |-> IF i \in About(o) THEN SavedRow(c, i) ELSE portfolio[i]]
  /\ IF o = Initial THEN UNCHANGED <<execution, trades, booked>>
     ELSE /\ execution' = [execution EXCEPT ![o] = "filled"]
          /\ trades' = trades \cup {o}
          /\ booked' = [booked EXCEPT ![o] = @ + 1]
  /\ handler' = [handler EXCEPT ![c] = NoReport]
  /\ excused' = excused \cup {i \in About(o) : handler[c].rows[i].last < portfolio[i].last}
  /\ UNCHANGED <<bar, status, macro, tick, network, orders, left, placed, moved>>

-----------------------------------------------------------------------------
Step(t) ==
  Load(t) \/ Decide(t) \/ Send(t) \/ NotConnected(t) \/ Mark(t)

Agent == \E e \in orders, filled, answered \in BOOLEAN : Execute(e, filled, answered)

Handle(c) ==
  Welcome(c) \/ HandlerEnds(c) \/ Check(c) \/ BookFailed(c) \/ ReadPortfolio(c) \/ SavePortfolio(c)

Next ==
  \/ NewBar
  \/ \E i \in Instances : Start(i) \/ Stop(i) \/ Delete(i) \/ Scan(i)
  \/ \E t \in Ticks : Step(t) \/ Fail(t)
  \/ \E c \in Conns : Connect(c) \/ Drop(c) \/ Handle(c)
  \/ Agent \/ Crash

Spec == Init /\ [][Next]_vars

-----------------------------------------------------------------------------
\* A fill is booked once, although the same order may be sent, placed and
\* reported again and two handlers may work on its reports at the same time.
BookedOnce == \A o \in Orders : booked[o] <= 1

\* What is booked was filled at the exchange.
BookedWasFilled == \A o \in trades : placed[o] > 0

\* The exchange fills an order twice only if the tick of its bar was cut short,
\* overlapped with another or was forgotten when a report saved the portfolio.
PlacedOnce == \A o \in Orders : placed[o] > 1 => o[1] \in excused

\* The holdings contain every recorded trade while all reports come over one
\* connection and no lots are transferred, although ticks write the same row.
HoldingsComplete ==
  Cardinality({c \in Conns : serving[c] # "new"}) <= 1 =>
    \A o \in trades : o[1] \in moved \/ o \in portfolio[o[1]].fills

\* docs: the agent connects again and no one has to step in.  The connection
\* that the agent uses, once authenticated, is the one that commands go to.
Reachable == \A c \in up : agent = c /\ serving[c] = "open" => registered = c
=============================================================================
