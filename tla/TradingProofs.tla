--------------------------- MODULE TradingProofs ---------------------------
(***************************************************************************)
(* Proofs about live trading, for every number of instances, connections,   *)
(* ticks, bars and faults: types, a fill is booked at most once, what is     *)
(* booked was filled, no trade is missing from the holdings while one        *)
(* connection reports, and the exchange is asked once per order unless the   *)
(* instance's turn was disturbed.                                           *)
(***************************************************************************)
EXTENDS Trading, FiniteSetTheorems, TLAPS

-----------------------------------------------------------------------------
(***************************************************************************)
(* Types.                                                                   *)
(***************************************************************************)
Reports == [order : Orders \cup {Initial}, ok : BOOLEAN]
Rows == [last : 0..MaxBar, fills : SUBSET Orders]
TickStates == [step : {"idle", "load", "decide", "send"}, inst : Instances \cup {None},
               bar : 0..MaxBar, row : Rows, macro : Nat, commands : Seq(Orders)]
HandlerStates == [step : {"idle", "checked", "read"}, order : Orders \cup {Initial},
                  ok : BOOLEAN, rows : [Instances -> Rows]]

TicksOK ==
  /\ tick \in [Ticks -> TickStates]
  /\ \A t \in Ticks : tick[t].step # "idle" => tick[t].inst \in Instances
  /\ \A t \in Ticks : tick[t].step \in {"decide", "send"} => tick[t].bar \in 1..bar

TypeInv ==
  /\ TypeOK
  /\ TicksOK
  /\ IsFiniteSet(orders)
  /\ outbox \in [Conns -> Seq(Reports)]
  /\ handler \in [Conns -> HandlerStates]
  /\ placed \in [Orders -> 0..2]

\* The first report of a connection is about no order.
LEMMA InitialIsNoOrder == Initial \notin Orders
BY DEF Initial, Orders

\* An idle tick and an idle handler are typed.
LEMMA NullsTyped == NoTick \in TickStates /\ NoReport \in HandlerStates
<1>1. NoRows \in [Instances -> Rows] /\ [last |-> 0, fills |-> {}] \in Rows
  BY SomeBar DEF NoRows, Rows
<1> QED
  BY <1>1, SomeBar DEF NoTick, NoReport, TickStates, HandlerStates

\* What Init sets has its type.
LEMMA TypeInit == Init => TypeInv
<1> SUFFICES ASSUME Init PROVE TypeInv
  OBVIOUS
<1>1. TypeOK
  BY SomeBar DEF Init, TypeOK, NoRows
<1>2. TicksOK
  BY NullsTyped DEF Init, TicksOK, NoTick
<1>3. outbox \in [Conns -> Seq(Reports)] /\ handler \in [Conns -> HandlerStates]
  BY NullsTyped DEF Init
<1>4. IsFiniteSet(orders) /\ placed \in [Orders -> 0..2]
  BY FS_EmptySet DEF Init
<1> QED
  BY <1>1, <1>2, <1>3, <1>4 DEF TypeInv

\* A finite set leaves a number free, so that a new copy of a command has one.
LEMMA FreeNumber ==
  ASSUME NEW S, IsFiniteSet(S)
  PROVE  Cardinality(S) \in Nat /\ \E k \in 0..Cardinality(S) : k \notin S
<1> DEFINE n == Cardinality(S)
<1>1. n \in Nat
  BY FS_CardinalityType
<1> HIDE DEF n
<1>2. SUFFICES ASSUME 0..n \subseteq S PROVE FALSE
  BY <1>1 DEF n
<1>3. Cardinality(0..n) <= n
  BY <1>2, FS_Subset DEF n
<1>4. Cardinality(0..n) = n + 1
  BY <1>1, FS_Interval
<1> QED
  BY <1>1, <1>3, <1>4

\* A report more leaves the reports typed.
LEMMA AppendTyped ==
  ASSUME NEW S, NEW R, NEW f \in [S -> Seq(R)], NEW x, NEW r \in R
  PROVE  [f EXCEPT ![x] = Append(@, r)] \in [S -> Seq(R)]
<1>1. \A y \in S : Append(f[y], r) \in Seq(R)
  OBVIOUS
<1> QED
  BY <1>1

\* The commands that a decision asks for: at most the purchase and the
\* rebalancing of the bar, in this order.
Shapes(i, b) ==
  LET due == <<i, "MACRO", b>>
      micro == <<i, "MICRO", b>>
  IN {<<>>, <<due>>, <<micro>>, <<due, micro>>}

\* The purchase is asked for only in a month that the runtime state does not name.
LEMMA IntentShapes ==
  ASSUME NEW t, NEW commands \in Intents(t)
  PROVE  /\ commands \in Shapes(tick[t].inst, tick[t].bar)
         /\ Month[tick[t].bar] = tick[t].macro => commands \in {<<>>, << <<tick[t].inst, "MICRO", tick[t].bar>> >>}
<1> DEFINE d == <<tick[t].inst, "MACRO", tick[t].bar>>
           m == <<tick[t].inst, "MICRO", tick[t].bar>>
           due == {d : x \in {Month[tick[t].bar]} \ {tick[t].macro}}
<1>1. due \subseteq {d} /\ (Month[tick[t].bar] = tick[t].macro => due = {})
  OBVIOUS
<1>2. commands \in {<<>>} \cup {<<o>> : o \in due \cup {m}} \cup {<<o, p>> : o \in due, p \in {m}}
  BY DEF Intents
<1> HIDE DEF due, d, m
<1>3. commands \in {<<>>, <<d>>, <<m>>, <<d, m>>} /\ (due = {} => commands \in {<<>>, <<m>>})
  BY <1>1, <1>2
<1> QED
  BY <1>1, <1>3 DEF Shapes, d, m

\* Every action keeps the types.
LEMMA TypeStep ==
  ASSUME TypeInv, [Next]_vars
  PROVE  TypeInv'
<1> DEFINE SameTick == tick' = tick /\ bar' = bar
           Others == UNCHANGED <<outbox, handler, placed>>
<1> USE DEF TypeInv, TypeOK, database, network, history
<1>1. CASE NewBar
  <2>1. bar' \in 1..MaxBar /\ 1..bar \subseteq 1..bar'
    BY <1>1, SomeBar DEF NewBar
  <2>2. TicksOK'
    BY <1>1, <2>1 DEF NewBar, TicksOK
  <2> QED
    BY <1>1, <2>1, <2>2 DEF NewBar
<1>2. ASSUME NEW i \in Instances, Start(i) \/ Stop(i) \/ Delete(i)
      PROVE  TypeInv'
  BY <1>2 DEF Start, Stop, Delete, SetStatus, TicksOK
<1>3. ASSUME NEW i \in Instances, Scan(i)
      PROVE  TypeInv'
  <2>1. PICK t \in Ticks : tick' = [tick EXCEPT ![t] = [NoTick EXCEPT !.step = "load", !.inst = i]]
    BY <1>3 DEF Scan
  <2>2. [NoTick EXCEPT !.step = "load", !.inst = i] \in TickStates
    BY NullsTyped DEF TickStates, NoTick
  <2>3. TicksOK'
    BY <1>3, <2>1, <2>2 DEF TicksOK, Scan, NoTick
  <2> QED
    BY <1>3, <2>3 DEF Scan
<1>4. ASSUME NEW t \in Ticks, Load(t)
      PROVE  TypeInv'
  <2>1. tick[t].inst \in Instances
    BY <1>4 DEF Load, TicksOK
  <2> DEFINE new == [tick[t] EXCEPT !.step = "decide", !.bar = bar, !.row = portfolio[tick[t].inst],
                                    !.macro = macro[tick[t].inst]]
  <2>2. new \in TickStates /\ new.bar = bar /\ new.inst \in Instances
    <3>1. /\ tick[t] \in TickStates /\ portfolio[tick[t].inst] \in Rows
          /\ macro[tick[t].inst] \in Nat /\ bar \in 0..MaxBar
      BY <2>1, SomeBar DEF TicksOK, Rows
    <3> DEFINE s == tick[t]
               r == portfolio[tick[t].inst]
               m == macro[tick[t].inst]
    <3>2. s \in TickStates /\ r \in Rows /\ m \in Nat /\ s.inst \in Instances
      BY <2>1, <3>1
    <3> HIDE DEF s, r, m
    <3>3. LET n == [s EXCEPT !.step = "decide", !.bar = bar, !.row = r, !.macro = m]
          IN n \in TickStates /\ n.bar = bar /\ n.inst \in Instances
      BY <3>1, <3>2 DEF TickStates
    <3> QED
      BY <3>3 DEF s, r, m
  <2> HIDE DEF new
  <2>3. tick' = [tick EXCEPT ![t] = NoTick] \/ tick' = [tick EXCEPT ![t] = new]
    BY <1>4 DEF Load, new
  <2>4. bar' = bar /\ bar \in 1..bar
    BY <1>4, SomeBar DEF Load
  <2>5. CASE tick' = [tick EXCEPT ![t] = NoTick]
    <3>1. TicksOK'
      BY <2>4, <2>5, NullsTyped DEF TicksOK, NoTick
    <3> QED
      BY <1>4, <3>1 DEF Load
  <2>6. CASE tick' = [tick EXCEPT ![t] = new]
    <3>1. TicksOK'
      BY <2>2, <2>4, <2>6 DEF TicksOK
    <3> QED
      BY <1>4, <3>1 DEF Load
  <2> QED
    BY <2>3, <2>5, <2>6
<1>5. ASSUME NEW t \in Ticks, Decide(t)
      PROVE  TypeInv'
  <2>1. /\ tick[t].inst \in Instances /\ tick[t].bar \in 1..MaxBar /\ tick[t].bar \in 1..bar
        /\ tick[t].row \in Rows
    BY <1>5, SomeBar DEF Decide, TicksOK, TickStates
  <2>2. PICK commands \in Intents(t) :
          /\ execution' = [o \in Orders |->
                             IF o \in ToSet(commands) /\ execution[o] = None THEN "pending" ELSE execution[o]]
          /\ tick' = [tick EXCEPT ![t].step = "send", ![t].commands = commands]
          /\ \/ portfolio' = portfolio
             \/ portfolio' = [portfolio EXCEPT ![tick[t].inst].fills = tick[t].row.fills]
    BY <1>5 DEF Decide
  <2>3. commands \in Seq(Orders)
    <3>1. commands \in Shapes(tick[t].inst, tick[t].bar)
      BY IntentShapes
    <3>2. <<tick[t].inst, "MACRO", tick[t].bar>> \in Orders /\ <<tick[t].inst, "MICRO", tick[t].bar>> \in Orders
      BY <2>1 DEF Orders
    <3> DEFINE d == <<tick[t].inst, "MACRO", tick[t].bar>>
               m == <<tick[t].inst, "MICRO", tick[t].bar>>
    <3>3. d \in Orders /\ m \in Orders /\ commands \in {<<>>, <<d>>, <<m>>, <<d, m>>}
      BY <3>1, <3>2 DEF Shapes
    <3> HIDE DEF d, m
    <3>4. <<>> \in Seq(Orders) /\ <<d>> \in Seq(Orders) /\ <<m>> \in Seq(Orders) /\ <<d, m>> \in Seq(Orders)
      BY <3>3
    <3> QED
      BY <3>3, <3>4
  <2> DEFINE new == [tick[t] EXCEPT !.step = "send", !.commands = commands]
  <2>4. new \in TickStates /\ new.bar = tick[t].bar /\ new.inst = tick[t].inst
    BY ZenonT(60), <2>3 DEF TicksOK, TickStates
  <2>5. tick' = [tick EXCEPT ![t] = new]
    BY <2>2 DEF TicksOK
  <2> HIDE DEF new
  <2>6. TicksOK'
    BY <1>5, <2>1, <2>4, <2>5 DEF TicksOK, Decide
  <2>7. portfolio' \in [Instances -> [last : 0..MaxBar, fills : SUBSET Orders]]
    <3> DEFINE row == portfolio[tick[t].inst]
    <3>1. row \in Rows /\ [row EXCEPT !.fills = tick[t].row.fills] \in Rows
      BY <2>1 DEF Rows
    <3> HIDE DEF row
    <3>2. [portfolio EXCEPT ![tick[t].inst].fills = tick[t].row.fills] =
            [portfolio EXCEPT ![tick[t].inst] = [row EXCEPT !.fills = tick[t].row.fills]]
      BY DEF row
    <3> QED
      BY <2>2, <3>1, <3>2 DEF Rows
  <2>8. macro' \in [Instances -> Nat]
    BY <1>5, <2>1, MonthsCount DEF Decide
  <2>9. execution' \in [Orders -> {None, "pending", "filled", "failed"}]
    BY <2>2
  <2> QED
    BY <1>5, <2>6, <2>7, <2>8, <2>9 DEF Decide
<1>6. ASSUME NEW t \in Ticks, Send(t)
      PROVE  TypeInv'
  <2> DEFINE new == [tick[t] EXCEPT !.commands = Tail(tick[t].commands)]
  <2>1. tick[t].commands \in Seq(Orders) /\ tick[t].commands # <<>>
    BY <1>6 DEF Send, TicksOK, TickStates
  <2>2. Head(tick[t].commands) \in Orders /\ Tail(tick[t].commands) \in Seq(Orders)
    BY <2>1
  <2>3. new \in TickStates /\ new.bar = tick[t].bar /\ new.inst = tick[t].inst /\ new.step = tick[t].step
    BY ZenonT(60), <2>2 DEF TicksOK, TickStates
  <2>4. tick' = [tick EXCEPT ![t] = new]
    BY <1>6 DEF Send, TicksOK
  <2> HIDE DEF new
  <2>5. TicksOK'
    BY <1>6, <2>3, <2>4 DEF TicksOK, Send
  <2>6. \E k \in Nat : orders' \in {orders, orders \cup
                         {[conn |-> registered, order |-> Head(tick[t].commands), copy |-> k]}}
    <3> DEFINE copies == {e.copy : e \in {x \in orders : x.conn = registered /\ x.order = Head(tick[t].commands)}}
               k == CHOOSE k \in 0..Cardinality(copies) : k \notin copies
    <3>1. k \in Nat
      <4> DEFINE those == {x \in orders : x.conn = registered /\ x.order = Head(tick[t].commands)}
      <4>1. IsFiniteSet(those)
        BY FS_Subset
      <4>2. [x \in those |-> x.copy] \in Surjection(those, copies)
        BY DEF Surjection
      <4>3. IsFiniteSet(copies)
        BY <4>1, <4>2, FS_Surjection
      <4> HIDE DEF copies
      <4>4. Cardinality(copies) \in Nat /\ \E j \in 0..Cardinality(copies) : j \notin copies
        BY <4>3, FreeNumber
      <4>5. k \in 0..Cardinality(copies)
        BY <4>4
      <4> QED
        BY <4>4, <4>5
    <3>2. orders' \in {orders, orders \cup
                         {[conn |-> registered, order |-> Head(tick[t].commands), copy |-> k]}}
      BY <1>6 DEF Send
    <3> HIDE DEF k
    <3> QED
      BY <3>1, <3>2
  <2>7. orders' \subseteq [conn : Conns, order : Orders, copy : Nat] /\ IsFiniteSet(orders')
    <3>1. PICK k \in Nat : orders' \in {orders, orders \cup
                         {[conn |-> registered, order |-> Head(tick[t].commands), copy |-> k]}}
      BY <2>6
    <3>2. [conn |-> registered, order |-> Head(tick[t].commands), copy |-> k]
             \in [conn : Conns, order : Orders, copy : Nat]
      BY <1>6, <2>2 DEF Send
    <3> DEFINE e == [conn |-> registered, order |-> Head(tick[t].commands), copy |-> k]
    <3> HIDE DEF e
    <3>3. IsFiniteSet(orders \cup {e})
      BY FS_AddElement
    <3> QED
      BY <3>1, <3>2, <3>3 DEF e
  <2> QED
    BY <1>6, <2>5, <2>7 DEF Send
<1>7. ASSUME NEW t \in Ticks, NotConnected(t) \/ Fail(t)
      PROVE  TypeInv'
  <2>1. tick' = [tick EXCEPT ![t] = NoTick] /\ bar' = bar
    BY <1>7 DEF NotConnected, Fail
  <2>2. TicksOK'
    BY <2>1, NullsTyped DEF TicksOK, NoTick
  <2> QED
    BY <1>7, <2>2 DEF NotConnected, Fail
<1>8. ASSUME NEW t \in Ticks, Mark(t)
      PROVE  TypeInv'
  <2>1. tick' = [tick EXCEPT ![t] = NoTick] /\ bar' = bar
    BY <1>8 DEF Mark
  <2>2. TicksOK'
    BY <2>1, NullsTyped DEF TicksOK, NoTick
  <2>3. tick[t].inst \in Instances /\ tick[t].bar \in 0..MaxBar
    BY <1>8 DEF Mark, TicksOK, TickStates
  <2>4. portfolio' \in [Instances -> [last : 0..MaxBar, fills : SUBSET Orders]]
    BY ZenonT(60), <1>8, <2>3 DEF Mark, Marked
  <2> QED
    BY <1>8, <2>2, <2>4 DEF Mark
<1>9. ASSUME NEW c \in Conns, Connect(c)
      PROVE  TypeInv'
  BY <1>9 DEF Connect, TicksOK
<1>10. ASSUME NEW c \in Conns, Drop(c)
       PROVE  TypeInv'
  BY <1>10, FS_Subset DEF Drop, HangUp, TicksOK
<1>11. ASSUME NEW c \in Conns, Welcome(c)
       PROVE  TypeInv'
  <2>1. outbox' \in [Conns -> Seq(Reports)]
    <3> DEFINE r == [order |-> Initial, ok |-> TRUE]
    <3>1. r \in Reports
      BY DEF Reports
    <3>2. outbox' = outbox \/ outbox' = [outbox EXCEPT ![c] = Append(@, r)]
      BY <1>11 DEF Welcome
    <3> HIDE DEF r
    <3>3. [outbox EXCEPT ![c] = Append(@, r)] \in [Conns -> Seq(Reports)]
      BY <3>1, AppendTyped
    <3> QED
      BY <3>2, <3>3
  <2>2. orders' \subseteq orders /\ IsFiniteSet(orders')
    BY <1>11, FS_Subset DEF Welcome, HangUp
  <2> QED
    BY <1>11, <2>1, <2>2 DEF Welcome, HangUp, TicksOK
<1>12. ASSUME NEW c \in Conns, HandlerEnds(c)
       PROVE  TypeInv'
  <2>1. outbox' \in [Conns -> Seq(Reports)]
    BY <1>12 DEF HandlerEnds
  <2> QED
    BY <1>12, <2>1 DEF HandlerEnds, RegisteredAfter, TicksOK
<1>13. ASSUME NEW c \in Conns, Check(c)
       PROVE  TypeInv'
  <2>1. outbox[c] \in Seq(Reports) /\ outbox[c] # <<>>
    BY <1>13 DEF Check
  <2>2. Head(outbox[c]) \in Reports /\ Tail(outbox[c]) \in Seq(Reports)
    BY <2>1
  <2>3. outbox' \in [Conns -> Seq(Reports)]
    BY <1>13, <2>2 DEF Check
  <2>4. [step |-> "checked", order |-> Head(outbox[c]).order, ok |-> Head(outbox[c]).ok, rows |-> NoRows]
          \in HandlerStates
    BY <2>2, NullsTyped DEF Reports, HandlerStates, NoReport
  <2>5. handler' \in [Conns -> HandlerStates]
    BY <1>13, <2>4, NullsTyped DEF Check
  <2> QED
    BY <1>13, <2>3, <2>5 DEF Check, TicksOK
<1>14. ASSUME NEW c \in Conns, BookFailed(c)
       PROVE  TypeInv'
  <2>1. handler' \in [Conns -> HandlerStates]
    BY <1>14, NullsTyped DEF BookFailed
  <2> QED
    BY <1>14, <2>1 DEF BookFailed, TicksOK
<1>15. ASSUME NEW c \in Conns, ReadPortfolio(c)
       PROVE  TypeInv'
  <2>1. [step |-> "read", order |-> handler[c].order, ok |-> TRUE, rows |-> portfolio] \in HandlerStates
    BY DEF HandlerStates, Rows
  <2>2. handler' \in [Conns -> HandlerStates]
    BY <1>15, <2>1, NullsTyped DEF ReadPortfolio
  <2> QED
    BY <1>15, <2>2 DEF ReadPortfolio, TicksOK
<1>16. ASSUME NEW c \in Conns, SavePortfolio(c)
       PROVE  TypeInv'
  <2>1. handler' \in [Conns -> HandlerStates]
    BY <1>16, NullsTyped DEF SavePortfolio
  <2>2. \A i \in Instances : SavedRow(c, i) \in Rows
    <3> SUFFICES ASSUME NEW i \in Instances PROVE SavedRow(c, i) \in Rows
      OBVIOUS
    <3> DEFINE row == handler[c].rows[i]
    <3>1. row \in Rows
      BY DEF HandlerStates
    <3> HIDE DEF row
    <3>2. [row EXCEPT !.fills = @ \cup (Orders \cap {handler[c].order})] \in Rows
      BY <3>1 DEF Rows
    <3> QED
      BY <3>2 DEF SavedRow, row
  <2>3. portfolio' \in [Instances -> [last : 0..MaxBar, fills : SUBSET Orders]]
    BY <1>16, <2>2 DEF SavePortfolio, Rows
  <2>4. /\ execution' \in [Orders -> {None, "pending", "filled", "failed"}]
        /\ trades' \subseteq Orders
    <3>1. handler[c].order \in Orders \cup {Initial}
      BY DEF HandlerStates
    <3> QED
      BY SMTT(30), <1>16, <3>1 DEF SavePortfolio
  <2> QED
    BY <1>16, <2>1, <2>3, <2>4 DEF SavePortfolio, TicksOK
<1>17. CASE Agent
  <2>1. PICK e \in orders, filled \in BOOLEAN, answered \in BOOLEAN : Execute(e, filled, answered)
    BY <1>17 DEF Agent
  <2> DEFINE r == [order |-> e.order, ok |-> Outcome(filled, answered) = "filled"]
  <2>2. e.order \in Orders /\ r \in Reports
    BY DEF Reports
  <2> HIDE DEF r
  <2>3. outbox' \in [Conns -> Seq(Reports)]
    <3>1. outbox' = outbox \/ outbox' = [outbox EXCEPT ![e.conn] = Append(@, r)]
      BY <2>1 DEF Execute, r
    <3>2. [outbox EXCEPT ![e.conn] = Append(@, r)] \in [Conns -> Seq(Reports)]
      BY <2>2, AppendTyped
    <3> QED
      BY <3>1, <3>2
  <2>4. orders' \subseteq orders /\ IsFiniteSet(orders')
    BY <2>1, FS_Subset DEF Execute
  <2>5. placed' \in [Orders -> 0..2]
    BY <2>1, <2>2 DEF Execute
  <2> QED
    BY <2>1, <2>3, <2>4, <2>5 DEF Execute, TicksOK
<1>18. CASE Crash
  <2>1. TicksOK' /\ handler' \in [Conns -> HandlerStates]
    BY <1>18, NullsTyped DEF Crash, TicksOK, NoTick
  <2>2. outbox' \in [Conns -> Seq(Reports)]
    BY <1>18 DEF Crash
  <2> QED
    BY <1>18, <2>1, <2>2 DEF Crash
<1>19. CASE UNCHANGED vars
  BY <1>19 DEF vars, TicksOK
<1> QED
  BY <1>1, <1>2, <1>3, <1>4, <1>5, <1>6, <1>7, <1>8, <1>9, <1>10, <1>11, <1>12, <1>13, <1>14,
     <1>15, <1>16, <1>17, <1>18, <1>19 DEF Next, Step, Handle

\* The tables, the hub's map and the commands on their way keep their types.
THEOREM TradingTypeCorrect == Spec => []TypeOK
<1>1. Spec => []TypeInv
  BY TypeInit, TypeStep, PTL DEF Spec
<1>2. TypeInv => TypeOK
  BY DEF TypeInv
<1> QED
  BY <1>1, <1>2, PTL

-----------------------------------------------------------------------------
(***************************************************************************)
(* A fill is booked at most once.  An order is booked exactly when it has a  *)
(* trade record; a handler that is about to book an order has seen that      *)
(* there is none, and holds the row of the order.                           *)
(***************************************************************************)
Booking(c, o) == handler[c].step = "read" /\ handler[c].order = o

BookingInv ==
  /\ booked \in [Orders -> Nat]
  /\ DOMAIN handler = Conns
  /\ \A o \in Orders : booked[o] = IF o \in trades THEN 1 ELSE 0
  /\ \A c \in Conns : \A o \in Orders : Booking(c, o) => o \notin trades
  /\ \A c, d \in Conns : \A o \in Orders : Booking(c, o) /\ Booking(d, o) => c = d

\* What a step needs: nothing is booked and no handler comes to a booking.
LEMMA BookingQuiet ==
  ASSUME BookingInv, UNCHANGED <<booked, trades>>, DOMAIN handler' = Conns,
         \A c \in Conns : handler'[c].step # "read" \/ handler'[c] = handler[c]
  PROVE  BookingInv'
BY DEF BookingInv, Booking

\* A handler that reads an order's portfolio is the only one to book it.
LEMMA ReadPortfolioBooks ==
  ASSUME BookingInv, NEW c \in Conns, ReadPortfolio(c)
  PROVE  BookingInv'
<1> DEFINE q == handler[c].order
<1>1. /\ DOMAIN handler' = Conns
      /\ \A d \in Conns \ {c} : handler'[d] = handler[d]
      /\ \A o \in Orders : Booking(c, o)' => o = q /\ o \notin trades /\ ~Locked(c, o)
  BY InitialIsNoOrder DEF ReadPortfolio, BookingInv, Booking, NewRecord, NoReport
<1>2. \A d \in Conns \ {c} : \A o \in Orders : Booking(d, o)' <=> Booking(d, o)
  BY <1>1 DEF Booking
<1>3. UNCHANGED <<booked, trades>>
  BY DEF ReadPortfolio, database, history
<1>4. \A d \in Conns : \A o \in Orders : Booking(c, o)' /\ Booking(d, o)' => d = c
  BY <1>1, <1>2 DEF Locked, Booking
<1> QED
  BY <1>1, <1>2, <1>3, <1>4 DEF BookingInv

\* Booking an order records its trade; no other handler is booking it.
LEMMA SavePortfolioBooks ==
  ASSUME BookingInv, NEW c \in Conns, SavePortfolio(c)
  PROVE  BookingInv'
<1> DEFINE q == handler[c].order
<1>1. /\ DOMAIN handler' = Conns
      /\ \A d \in Conns \ {c} : handler'[d] = handler[d]
      /\ \A o \in Orders : ~Booking(c, o)'
  BY DEF SavePortfolio, BookingInv, Booking, NoReport
<1>2. \A d \in Conns : \A o \in Orders : Booking(d, o)' => d # c /\ Booking(d, o)
  BY <1>1 DEF Booking
<1>3. CASE q \notin Orders
  <2>1. booked' = booked /\ \A o \in Orders : o \in trades' <=> o \in trades
    BY <1>3 DEF SavePortfolio, BookingInv
  <2> QED
    BY <1>1, <1>2, <2>1 DEF BookingInv
<1>4. CASE q \in Orders
  <2>1. /\ Booking(c, q)
        /\ trades' = trades \cup {q}
        /\ booked' = [booked EXCEPT ![q] = @ + 1]
    BY <1>4, InitialIsNoOrder DEF SavePortfolio, Booking
  <2>2. q \notin trades /\ booked[q] = 0
    BY <1>4, <2>1 DEF BookingInv
  <2>3. booked' \in [Orders -> Nat] /\ \A o \in Orders : booked'[o] = IF o \in trades' THEN 1 ELSE 0
    BY <1>4, <2>1, <2>2 DEF BookingInv
  <2>4. \A d \in Conns : \A o \in Orders : Booking(d, o)' => o # q /\ o \notin trades'
    BY <1>2, <2>1, <1>4 DEF BookingInv
  <2> QED
    BY <1>1, <1>2, <2>3, <2>4 DEF BookingInv
<1> QED
  BY <1>3, <1>4

\* No other action books anything.
LEMMA BookingStep ==
  ASSUME BookingInv, [Next]_vars
  PROVE  BookingInv'
<1> DEFINE Still == UNCHANGED <<booked, trades, handler>>
<1>1. CASE NewBar
  <2>1. Still
    BY <1>1 DEF NewBar, database, history
  <2> QED
    BY <2>1, BookingQuiet DEF BookingInv
<1>2. ASSUME NEW i \in Instances, Start(i) \/ Stop(i) \/ Delete(i) \/ Scan(i)
      PROVE  BookingInv'
  <2>1. Still
    BY <1>2 DEF Start, Stop, Delete, SetStatus, Scan, database, history
  <2> QED
    BY <2>1, BookingQuiet DEF BookingInv
<1>3. ASSUME NEW t \in Ticks, Step(t) \/ Fail(t)
      PROVE  BookingInv'
  <2>1. Still
    BY <1>3 DEF Step, Load, Decide, Send, NotConnected, Mark, Fail, database, history
  <2> QED
    BY <2>1, BookingQuiet DEF BookingInv
<1>4. ASSUME NEW c \in Conns, Connect(c) \/ Drop(c) \/ Welcome(c) \/ HandlerEnds(c)
      PROVE  BookingInv'
  <2>1. Still
    BY <1>4 DEF Connect, Drop, Welcome, HandlerEnds, database, history
  <2> QED
    BY <2>1, BookingQuiet DEF BookingInv
<1>5. ASSUME NEW c \in Conns, Check(c) \/ BookFailed(c)
      PROVE  BookingInv'
  <2>1. /\ UNCHANGED <<booked, trades>>
        /\ DOMAIN handler' = Conns
        /\ \A d \in Conns : handler'[d].step # "read" \/ handler'[d] = handler[d]
    BY <1>5 DEF Check, BookFailed, NoReport, database, history, BookingInv
  <2> QED
    BY <2>1, BookingQuiet
<1>6. CASE Agent
  <2>1. Still
    BY <1>6 DEF Agent, Execute, database
  <2> QED
    BY <2>1, BookingQuiet DEF BookingInv
<1>7. CASE Crash
  <2>1. /\ UNCHANGED <<booked, trades>>
        /\ handler' = [c \in Conns |-> NoReport]
    BY <1>7 DEF Crash, database
  <2> QED
    BY <2>1, BookingQuiet DEF NoReport
<1>8. CASE UNCHANGED vars
  <2>1. Still
    BY <1>8 DEF vars
  <2> QED
    BY <2>1, BookingQuiet DEF BookingInv
<1> QED
  BY <1>1, <1>2, <1>3, <1>4, <1>5, <1>6, <1>7, <1>8, ReadPortfolioBooks, SavePortfolioBooks
  DEF Next, Handle

\* A fill is booked at most once: Check, ReadPortfolio and SavePortfolio of two
\* handlers, crashes between them and orders that are sent, placed and reported
\* again included.
THEOREM FillsAreBookedOnce == Spec => []BookedOnce
<1>1. Init => BookingInv
  BY DEF Init, BookingInv, Booking, NoReport
<1>2. BookingInv => BookedOnce
  BY DEF BookingInv, BookedOnce
<1>3. BookingInv /\ [Next]_vars => BookingInv'
  BY BookingStep
<1> QED
  BY <1>1, <1>2, <1>3, PTL DEF Spec

-----------------------------------------------------------------------------
(***************************************************************************)
(* What is booked was filled.                                               *)
(***************************************************************************)
\* A report, on its way or being booked, that says filled is about an order that
\* the exchange has filled.
Vouched(r) == r.ok /\ r.order \in Orders => placed[r.order] > 0

FilledInv ==
  /\ \A c \in Conns : \A n \in 1..Len(outbox[c]) : Vouched(outbox[c][n])
  /\ \A c \in Conns : Vouched(handler[c]) /\ (handler[c].step = "read" => handler[c].ok)
  /\ BookedWasFilled

\* Nothing is reported or booked.
LEMMA FilledQuiet ==
  ASSUME FilledInv, UNCHANGED <<placed, trades>>,
         \A c \in Conns : outbox'[c] = outbox[c] \/ outbox'[c] = <<>>,
         \A c \in Conns : handler'[c] = handler[c] \/ handler'[c] = NoReport
  PROVE  FilledInv'
<1>1. \A c \in Conns : \A n \in 1..Len(outbox'[c]) : Vouched(outbox[c][n])' /\ outbox'[c] = outbox[c]
  BY DEF FilledInv, Vouched
<1>2. \A c \in Conns : Vouched(handler[c])' /\ (handler'[c].step = "read" => handler'[c].ok)
  BY DEF FilledInv, Vouched, NoReport
<1> QED
  BY <1>1, <1>2 DEF FilledInv, BookedWasFilled

\* The outcome that the agent reports is filled only after the exchange filled
\* the order; Check and ReadPortfolio carry what the report says.
LEMMA FilledStep ==
  ASSUME TypeInv, FilledInv, [Next]_vars
  PROVE  FilledInv'
<1> DEFINE Still == UNCHANGED <<placed, trades, outbox, handler>>
<1>1. CASE NewBar
  <2>1. Still
    BY <1>1 DEF NewBar, database, network, history
  <2> QED
    BY <2>1, FilledQuiet
<1>2. ASSUME NEW i \in Instances, Start(i) \/ Stop(i) \/ Delete(i) \/ Scan(i)
      PROVE  FilledInv'
  <2>1. Still
    BY <1>2 DEF Start, Stop, Delete, SetStatus, Scan, database, network, history
  <2> QED
    BY <2>1, FilledQuiet
<1>3. ASSUME NEW t \in Ticks, Step(t) \/ Fail(t)
      PROVE  FilledInv'
  <2>1. Still
    BY <1>3 DEF Step, Load, Decide, Send, NotConnected, Mark, Fail, database, network, history
  <2> QED
    BY <2>1, FilledQuiet
<1>4. ASSUME NEW c \in Conns, Connect(c) \/ Drop(c) \/ HandlerEnds(c)
      PROVE  FilledInv'
  <2>1. UNCHANGED <<placed, trades, handler>> /\ (outbox' = outbox \/ outbox' = [outbox EXCEPT ![c] = <<>>])
    BY <1>4 DEF Connect, Drop, HandlerEnds, database, history
  <2>2. \A d \in Conns : outbox'[d] = outbox[d] \/ outbox'[d] = <<>>
    BY <2>1 DEF TypeInv
  <2> QED
    BY <2>1, <2>2, FilledQuiet
<1>5. ASSUME NEW c \in Conns, Welcome(c)
      PROVE  FilledInv'
  <2> DEFINE r == [order |-> Initial, ok |-> TRUE]
  <2>1. UNCHANGED <<placed, trades, handler>> /\ (outbox' = outbox \/ outbox' = [outbox EXCEPT ![c] = Append(@, r)])
    BY <1>5 DEF Welcome, database, history
  <2>2. CASE outbox' = outbox
    BY <2>1, <2>2, FilledQuiet
  <2>3. CASE outbox' = [outbox EXCEPT ![c] = Append(@, r)]
    <3>1. r \in Reports /\ Vouched(r)'
      BY InitialIsNoOrder DEF Reports, Vouched
    <3> HIDE DEF r
    <3>2. \A d \in Conns : \A n \in 1..Len(outbox'[d]) :
             (n \in 1..Len(outbox[d]) /\ outbox'[d][n] = outbox[d][n]) \/ outbox'[d][n] = r
      BY <2>3, <3>1 DEF TypeInv
    <3>3. \A d \in Conns : \A n \in 1..Len(outbox'[d]) : Vouched(outbox[d][n])'
      BY <2>1, <3>1, <3>2 DEF FilledInv, Vouched
    <3> QED
      BY <2>1, <3>3 DEF FilledInv, Vouched, BookedWasFilled
  <2> QED
    BY <2>1, <2>2, <2>3
<1>6. ASSUME NEW c \in Conns, Check(c)
      PROVE  FilledInv'
  <2> DEFINE r == Head(outbox[c])
  <2>1. /\ UNCHANGED <<placed, trades>>
        /\ outbox[c] \in Seq(Reports) /\ outbox[c] # <<>>
        /\ outbox' = [outbox EXCEPT ![c] = Tail(@)]
        /\ \/ handler' = [handler EXCEPT ![c] = NoReport]
           \/ handler' = [handler EXCEPT ![c] = [step |-> "checked", order |-> r.order, ok |-> r.ok, rows |-> NoRows]]
    BY <1>6 DEF Check, database, history, TypeInv
  <2>2. Vouched(r)
    BY <2>1 DEF FilledInv
  <2>3. \A d \in Conns : \A n \in 1..Len(outbox'[d]) :
           \E m \in 1..Len(outbox[d]) : outbox'[d][n] = outbox[d][m]
    <3>1. \A n \in 1..Len(Tail(outbox[c])) : n + 1 \in 1..Len(outbox[c]) /\ Tail(outbox[c])[n] = outbox[c][n + 1]
      BY <2>1
    <3> QED
      BY <2>1, <3>1 DEF TypeInv
  <2>4. \A d \in Conns : \A n \in 1..Len(outbox'[d]) : Vouched(outbox[d][n])'
    BY <2>1, <2>3 DEF FilledInv, Vouched
  <2>5. \A d \in Conns : Vouched(handler[d])' /\ (handler'[d].step = "read" => handler'[d].ok)
    <3> DEFINE h == [step |-> "checked", order |-> r.order, ok |-> r.ok, rows |-> NoRows]
    <3>1. Vouched(h) /\ h.step # "read"
      BY <2>2 DEF Vouched
    <3>2. \A d \in Conns : handler'[d] = handler[d] \/ handler'[d] = NoReport \/ handler'[d] = h
      BY <2>1 DEF TypeInv
    <3> HIDE DEF r, h
    <3> QED
      BY <2>1, <3>1, <3>2 DEF FilledInv, Vouched, NoReport
  <2> QED
    BY <2>1, <2>4, <2>5 DEF FilledInv, BookedWasFilled
<1>7. ASSUME NEW c \in Conns, BookFailed(c)
      PROVE  FilledInv'
  <2>1. UNCHANGED <<placed, trades, outbox>> /\ handler' = [handler EXCEPT ![c] = NoReport]
    BY <1>7 DEF BookFailed, network, history
  <2>2. \A d \in Conns : handler'[d] = handler[d] \/ handler'[d] = NoReport
    BY <2>1 DEF TypeInv
  <2> QED
    BY <2>1, <2>2, FilledQuiet
<1>8. ASSUME NEW c \in Conns, ReadPortfolio(c)
      PROVE  FilledInv'
  <2> DEFINE h == [step |-> "read", order |-> handler[c].order, ok |-> TRUE, rows |-> portfolio]
  <2>1. /\ UNCHANGED <<placed, trades, outbox>> /\ handler[c].ok
        /\ \A d \in Conns : handler'[d] = handler[d] \/ handler'[d] = NoReport \/ (d = c /\ handler'[d] = h)
    BY <1>8 DEF ReadPortfolio, database, network, history, TypeInv
  <2>2. Vouched(h) /\ h.step = "read" /\ h.ok
    BY <2>1 DEF FilledInv, Vouched
  <2> HIDE DEF h
  <2>3. \A d \in Conns : Vouched(handler[d])' /\ (handler'[d].step = "read" => handler'[d].ok)
    BY <2>1, <2>2 DEF FilledInv, Vouched, NoReport
  <2> QED
    BY <2>1, <2>3 DEF FilledInv, Vouched, BookedWasFilled
<1>9. ASSUME NEW c \in Conns, SavePortfolio(c)
      PROVE  FilledInv'
  <2>1. /\ UNCHANGED <<placed, outbox>> /\ handler[c].step = "read"
        /\ \A d \in Conns : handler'[d] = handler[d] \/ handler'[d] = NoReport
        /\ trades' = trades \/ trades' = trades \cup {handler[c].order}
    BY <1>9 DEF SavePortfolio, network, TypeInv
  <2>2. trades' \subseteq Orders
    BY TypeStep DEF Next, Handle, TypeInv, TypeOK
  <2>3. \A o \in trades' : placed'[o] > 0
    BY <2>1, <2>2 DEF FilledInv, Vouched, BookedWasFilled
  <2>4. \A d \in Conns : Vouched(handler[d])' /\ (handler'[d].step = "read" => handler'[d].ok)
    BY <2>1 DEF FilledInv, Vouched, NoReport
  <2> QED
    BY <2>1, <2>3, <2>4 DEF FilledInv, Vouched, BookedWasFilled
<1>10. CASE Agent
  <2>1. PICK e \in orders, filled \in BOOLEAN, answered \in BOOLEAN : Execute(e, filled, answered)
    BY <1>10 DEF Agent
  <2> DEFINE r == [order |-> e.order, ok |-> Outcome(filled, answered) = "filled"]
  <2>2. e.order \in Orders /\ e.conn \in Conns /\ r \in Reports
    BY DEF Reports, TypeInv, TypeOK
  <2>3. \A o \in Orders : placed[o] > 0 \/ (o = e.order /\ filled) => placed'[o] > 0
    <3>1. placed' = [placed EXCEPT ![e.order] = IF filled /\ @ < 2 THEN @ + 1 ELSE @]
      BY <2>1 DEF Execute
    <3> QED
      BY <2>2, <3>1 DEF TypeInv
  <2>4. Vouched(r)'
    BY <2>2, <2>3 DEF Vouched, Outcome
  <2>6. UNCHANGED <<trades, handler>> /\ (outbox' = outbox \/ outbox' = [outbox EXCEPT ![e.conn] = Append(@, r)])
    BY <2>1, <2>2 DEF Execute, database, TypeInv
  <2> HIDE DEF r
  <2>7. \A d \in Conns : \A n \in 1..Len(outbox'[d]) :
           (n \in 1..Len(outbox[d]) /\ outbox'[d][n] = outbox[d][n]) \/ outbox'[d][n] = r
    <3>1. outbox \in [Conns -> Seq(Reports)]
      BY DEF TypeInv
    <3>2. CASE outbox' = outbox
      BY <3>1, <3>2
    <3>3. CASE outbox' = [outbox EXCEPT ![e.conn] = Append(@, r)]
      BY <2>2, <3>1, <3>3
    <3> QED
      BY <2>6, <3>2, <3>3
  <2>8. \A d \in Conns : \A n \in 1..Len(outbox'[d]) : Vouched(outbox[d][n])'
    <3> SUFFICES ASSUME NEW d \in Conns, NEW n \in 1..Len(outbox'[d]) PROVE Vouched(outbox[d][n])'
      OBVIOUS
    <3>1. CASE n \in 1..Len(outbox[d]) /\ outbox'[d][n] = outbox[d][n]
      BY <2>3, <3>1 DEF Vouched, FilledInv
    <3>2. CASE outbox'[d][n] = r
      BY <2>4, <3>2 DEF Vouched
    <3> QED
      BY <2>7, <3>1, <3>2
  <2>9. \A d \in Conns : Vouched(handler[d])' /\ (handler'[d].step = "read" => handler'[d].ok)
    BY <2>3, <2>6 DEF FilledInv, Vouched
  <2>10. BookedWasFilled'
    BY <2>3, <2>6 DEF FilledInv, BookedWasFilled, TypeInv, TypeOK
  <2> QED
    BY <2>8, <2>9, <2>10 DEF FilledInv
<1>11. CASE Crash
  <2>1. UNCHANGED <<placed, trades>> /\ outbox' = [c \in Conns |-> <<>>] /\ handler' = [c \in Conns |-> NoReport]
    BY <1>11 DEF Crash, database
  <2> QED
    BY <2>1, FilledQuiet
<1>12. CASE UNCHANGED vars
  <2>1. Still
    BY <1>12 DEF vars
  <2> QED
    BY <2>1, FilledQuiet
<1> QED
  BY <1>1, <1>2, <1>3, <1>4, <1>5, <1>6, <1>7, <1>8, <1>9, <1>10, <1>11, <1>12 DEF Next, Handle

\* What is booked was filled at the exchange: Execute reports it, Check,
\* ReadPortfolio and SavePortfolio only carry it on.
THEOREM NothingBookedUnfilled == Spec => []BookedWasFilled
<1>1. Init => TypeInv /\ FilledInv
  <2>1. Init => FilledInv
    BY DEF Init, FilledInv, Vouched, NoReport, BookedWasFilled
  <2> QED
    BY <2>1, TypeInit
<1>2. TypeInv /\ FilledInv /\ [Next]_vars => (TypeInv /\ FilledInv)'
  BY TypeStep, FilledStep
<1>3. FilledInv => BookedWasFilled
  BY DEF FilledInv
<1> QED
  BY <1>1, <1>2, <1>3, PTL DEF Spec

-----------------------------------------------------------------------------
(***************************************************************************)
(* No trade is missing from the holdings.  A report overwrites a row as it   *)
(* was read; with one connection nothing was booked between.                *)
(***************************************************************************)
\* The connections that have been used, and the assumption of HoldingsComplete.
Used == {c \in Conns : serving[c] # "new"}
AtMostOne == \A c, d \in Used : c = d

\* Every recorded trade is in the holdings, and in the rows that a handler has
\* read and is about to write back, unless lots were transferred.
Held == \A o \in trades : o[1] \in moved \/ o \in portfolio[o[1]].fills
ReadsAll ==
  \A c \in Conns : \A i \in Instances \ moved :
    handler[c].step = "read" /\ i \in About(handler[c].order)
      => portfolio[i].fills \subseteq handler[c].rows[i].fills

HoldInv ==
  /\ IsFiniteSet(Used)
  /\ \A c \in Conns : handler[c].step # "idle" => c \in Used
  /\ AtMostOne => Held /\ ReadsAll

\* No holdings change but those that a transfer wrote, and no report is booked.
LEMMA HoldQuiet ==
  ASSUME TypeInv, HoldInv, UNCHANGED trades, moved \subseteq moved',
         Used \subseteq Used', IsFiniteSet(Used'),
         \A i \in Instances \ moved' : portfolio'[i].fills = portfolio[i].fills,
         \A c \in Conns : \/ handler'[c] = handler[c]
                          \/ handler'[c].step = "idle"
                          \/ handler'[c].step = "checked" /\ c \in Used
  PROVE  HoldInv'
<1>1. \A c \in Conns : handler'[c].step # "idle" => c \in Used'
  BY DEF HoldInv
<1>2. ASSUME AtMostOne' PROVE Held' /\ ReadsAll'
  <2>1. Held /\ ReadsAll
    BY <1>2 DEF HoldInv, AtMostOne
  <2>2. \A o \in trades : o[1] \in Instances
    BY DEF TypeInv, TypeOK, Orders
  <2>3. Held'
    BY <2>1, <2>2 DEF Held
  <2>4. ReadsAll'
    BY <2>1 DEF ReadsAll, About
  <2> QED
    BY <2>3, <2>4
<1> QED
  BY <1>1, <1>2 DEF HoldInv

\* Only a transfer and a report write holdings.
LEMMA HoldStep ==
  ASSUME TypeInv, HoldInv, [Next]_vars
  PROVE  HoldInv'
<1> DEFINE Still == UNCHANGED <<trades, moved, serving, handler>>
           SameFills == \A i \in Instances : portfolio'[i].fills = portfolio[i].fills
<1>0. ASSUME Still, SameFills PROVE HoldInv'
  <2>1. Used' = Used
    BY <1>0 DEF Used
  <2> QED
    BY <1>0, <2>1, HoldQuiet DEF HoldInv
<1> HIDE DEF Still, SameFills
<1>1. CASE NewBar
  BY <1>0, <1>1 DEF Still, SameFills, NewBar, database, network, history
<1>2. ASSUME NEW i \in Instances, Start(i) \/ Stop(i) \/ Delete(i) \/ Scan(i)
      PROVE  HoldInv'
  BY <1>0, <1>2 DEF Still, SameFills, Start, Stop, Delete, SetStatus, Scan, database, network, history
<1>3. ASSUME NEW t \in Ticks, Load(t) \/ Send(t) \/ NotConnected(t) \/ Fail(t)
      PROVE  HoldInv'
  BY <1>0, <1>3 DEF Still, SameFills, Load, Send, NotConnected, Fail, database, network, history
<1>4. ASSUME NEW t \in Ticks, Decide(t)
      PROVE  HoldInv'
  <2>1. /\ UNCHANGED <<trades, serving, handler>>
        /\ moved \subseteq moved'
        /\ \A i \in Instances \ moved' : portfolio'[i].fills = portfolio[i].fills
    BY <1>4 DEF Decide, network, TypeInv, TypeOK
  <2>2. Used' = Used
    BY <2>1 DEF Used
  <2> QED
    BY <2>1, <2>2, HoldQuiet DEF HoldInv
<1>5. ASSUME NEW t \in Ticks, Mark(t)
      PROVE  HoldInv'
  <2>1. SameFills
    <3>1. portfolio' = [portfolio EXCEPT ![tick[t].inst] = [portfolio[tick[t].inst] EXCEPT !.last = tick[t].bar]]
      BY <1>5 DEF Mark, Marked
    <3> SUFFICES ASSUME NEW i \in Instances PROVE portfolio'[i].fills = portfolio[i].fills
      BY DEF SameFills
    <3> DEFINE row == portfolio[i]
    <3>2. row \in Rows
      BY DEF TypeInv, TypeOK, Rows
    <3>3. portfolio'[i] = row \/ portfolio'[i] = [row EXCEPT !.last = tick[t].bar]
      BY <3>1 DEF TypeInv, TypeOK
    <3> HIDE DEF row
    <3>4. portfolio'[i].fills = row.fills
      BY <3>2, <3>3 DEF Rows
    <3> QED
      BY <3>4 DEF row
  <2> QED
    BY <1>0, <1>5, <2>1 DEF Still, Mark, network, history
<1>6. ASSUME NEW c \in Conns, Connect(c)
      PROVE  HoldInv'
  <2>1. UNCHANGED <<trades, moved, portfolio, handler>> /\ serving' = [serving EXCEPT ![c] = "stored"]
    BY <1>6 DEF Connect, database, history
  <2>2. Used' = Used \cup {c}
    BY <2>1 DEF Used, TypeInv, TypeOK
  <2>3. IsFiniteSet(Used')
    BY <2>2, FS_AddElement DEF HoldInv
  <2> QED
    BY <2>1, <2>2, <2>3, HoldQuiet
<1>7. ASSUME NEW c \in Conns, Welcome(c) \/ HandlerEnds(c)
      PROVE  HoldInv'
  <2>1. UNCHANGED <<trades, moved, portfolio, handler>>
    BY <1>7 DEF Welcome, HandlerEnds, database, history
  <2>2. Used' = Used
    BY <1>7 DEF Welcome, HandlerEnds, Used, TypeInv, TypeOK
  <2> QED
    BY <2>1, <2>2, HoldQuiet DEF HoldInv
<1>8. ASSUME NEW c \in Conns, Drop(c)
      PROVE  HoldInv'
  BY <1>0, <1>8 DEF Still, SameFills, Drop, database, history
<1>9. ASSUME NEW c \in Conns, Check(c)
      PROVE  HoldInv'
  <2>1. /\ UNCHANGED <<trades, moved, portfolio, serving>> /\ c \in Used
        /\ \A d \in Conns : \/ handler'[d] = handler[d]
                            \/ handler'[d].step = "idle"
                            \/ handler'[d].step = "checked" /\ d = c
    BY <1>9 DEF Check, NoReport, database, history, Used, TypeInv
  <2>2. Used' = Used
    BY <2>1 DEF Used
  <2> QED
    BY <2>1, <2>2, HoldQuiet DEF HoldInv
<1>10. ASSUME NEW c \in Conns, BookFailed(c)
       PROVE  HoldInv'
  <2>1. /\ UNCHANGED <<trades, moved, portfolio, serving>>
        /\ \A d \in Conns : handler'[d] = handler[d] \/ handler'[d].step = "idle"
    BY <1>10 DEF BookFailed, NoReport, network, history, TypeInv
  <2>2. Used' = Used
    BY <2>1 DEF Used
  <2> QED
    BY <2>1, <2>2, HoldQuiet DEF HoldInv
<1>11. ASSUME NEW c \in Conns, ReadPortfolio(c)
       PROVE  HoldInv'
  <2>1. /\ UNCHANGED <<trades, moved, portfolio, serving>> /\ c \in Used
        /\ \A d \in Conns : \/ handler'[d] = handler[d]
                            \/ handler'[d].step = "idle"
                            \/ d = c /\ handler'[d].rows = portfolio
    BY <1>11 DEF ReadPortfolio, NoReport, database, network, history, HoldInv, TypeInv
  <2>2. Used' = Used
    BY <2>1 DEF Used
  <2>3. \A d \in Conns : handler'[d].step # "idle" => d \in Used
    BY <2>1 DEF HoldInv
  <2>4. ReadsAll => ReadsAll'
    BY <2>1 DEF ReadsAll, About
  <2>5. Held => Held'
    BY <2>1 DEF Held
  <2> QED
    BY <2>2, <2>3, <2>4, <2>5 DEF HoldInv, AtMostOne
<1>12. ASSUME NEW c \in Conns, SavePortfolio(c)
       PROVE  HoldInv'
  <2> DEFINE o == handler[c].order
  <2>1. /\ UNCHANGED <<moved, serving>> /\ handler[c].step = "read"
        /\ handler' = [handler EXCEPT ![c] = NoReport]
        /\ portfolio' = [i \in Instances |-> IF i \in About(o) THEN SavedRow(c, i) ELSE portfolio[i]]
        /\ trades' = IF o = Initial THEN trades ELSE trades \cup {o}
    BY <1>12 DEF SavePortfolio, network
  <2>2. Used' = Used
    BY <2>1 DEF Used
  <2>3. \A d \in Conns : handler'[d].step # "idle" => d # c /\ handler'[d] = handler[d] /\ d \in Used
    BY <2>1 DEF HoldInv, NoReport, TypeInv
  <2>4. c \in Used /\ o \in Orders \cup {Initial}
    BY <2>1 DEF HoldInv, TypeInv, HandlerStates
  <2>5. ASSUME AtMostOne PROVE Held' /\ ReadsAll'
    <3>1. ReadsAll'
      BY <2>3, <2>4, <2>5 DEF ReadsAll, AtMostOne
    <3>2. \A i \in Instances : SavedRow(c, i).fills = handler[c].rows[i].fills \cup (Orders \cap {o})
      <4> SUFFICES ASSUME NEW i \in Instances
                   PROVE  SavedRow(c, i).fills = handler[c].rows[i].fills \cup (Orders \cap {o})
        OBVIOUS
      <4> DEFINE row == handler[c].rows[i]
      <4>1. row \in Rows
        BY DEF TypeInv, HandlerStates
      <4> HIDE DEF row
      <4>2. [row EXCEPT !.fills = @ \cup (Orders \cap {o})].fills = row.fills \cup (Orders \cap {o})
        BY <4>1 DEF Rows
      <4> QED
        BY <4>2 DEF row, SavedRow
    <3>3. \A i \in Instances \ moved : portfolio[i].fills \subseteq portfolio'[i].fills
      BY <2>1, <2>5, <3>2 DEF HoldInv, ReadsAll
    <3>4. o \in Orders => o[1] \in Instances /\ o \in portfolio'[o[1]].fills
      BY <2>1, <3>2, InitialIsNoOrder DEF About, Orders
    <3>5. \A p \in trades : p[1] \in Instances /\ (p[1] \in moved \/ p \in portfolio[p[1]].fills)
      BY <2>5 DEF HoldInv, Held, TypeInv, TypeOK, Orders
    <3>6. Held'
      BY <2>1, <2>4, <3>3, <3>4, <3>5 DEF Held
    <3> QED
      BY <3>1, <3>6
  <2> QED
    BY <2>2, <2>3, <2>5 DEF HoldInv, AtMostOne
<1>13. CASE Agent
  BY <1>0, <1>13 DEF Still, SameFills, Agent, Execute, database
<1>14. CASE Crash
  <2>1. /\ UNCHANGED <<trades, moved, portfolio>>
        /\ handler' = [c \in Conns |-> NoReport]
        /\ serving' = [c \in Conns |-> IF serving[c] = "new" THEN "new" ELSE "gone"]
    BY <1>14 DEF Crash, database
  <2>2. Used' = Used
    BY <2>1 DEF Used
  <2>3. \A c \in Conns : handler'[c].step = "idle"
    BY <2>1 DEF NoReport
  <2> QED
    BY <2>1, <2>2, <2>3, HoldQuiet DEF HoldInv
<1>15. CASE UNCHANGED vars
  BY <1>0, <1>15 DEF Still, SameFills, vars
<1> QED
  BY <1>1, <1>2, <1>3, <1>4, <1>5, <1>6, <1>7, <1>8, <1>9, <1>10, <1>11, <1>12, <1>13, <1>14, <1>15
  DEF Next, Step, Handle

\* At most one used connection in the words of HoldingsComplete.
LEMMA HoldImplies == HoldInv => HoldingsComplete
<1> SUFFICES ASSUME HoldInv, Cardinality(Used) <= 1 PROVE Held
  BY DEF HoldingsComplete, Held, Used
<1>1. ASSUME NEW c \in Used, NEW d \in Used, c # d PROVE FALSE
  <2>1. IsFiniteSet(Used) /\ {c} \cup {d} \subseteq Used
    BY DEF HoldInv
  <2>2. Cardinality({c} \cup {d}) <= Cardinality(Used) /\ Cardinality(Used) \in Nat /\ Cardinality({c} \cup {d}) \in Nat
    BY <2>1, FS_Subset, FS_CardinalityType
  <2>3. Cardinality({c} \cup {d}) = 2
    <3>1. IsFiniteSet({c}) /\ Cardinality({c}) = 1 /\ d \notin {c}
      BY <1>1, FS_Singleton
    <3>2. Cardinality({c} \cup {d}) = IF d \in {c} THEN Cardinality({c}) ELSE Cardinality({c}) + 1
      BY <3>1, FS_AddElement
    <3> QED
      BY <3>1, <3>2
  <2> QED
    BY <2>2, <2>3
<1> QED
  BY <1>1 DEF HoldInv, AtMostOne

\* The holdings contain every recorded trade while all reports come over one
\* connection and no lots are transferred, although ticks, crashes and reports
\* write the same row.
THEOREM HoldingsKeepEveryTrade == Spec => []HoldingsComplete
<1>1. Init => TypeInv /\ HoldInv
  <2>1. Init => HoldInv
    <3> SUFFICES ASSUME Init PROVE HoldInv
      OBVIOUS
    <3>1. Used = {} /\ IsFiniteSet(Used)
      BY FS_EmptySet DEF Init, Used
    <3> QED
      BY <3>1 DEF Init, HoldInv, NoReport, Held, ReadsAll
  <2> QED
    BY <2>1, TypeInit
<1>2. TypeInv /\ HoldInv /\ [Next]_vars => (TypeInv /\ HoldInv)'
  BY TypeStep, HoldStep
<1> QED
  BY <1>1, <1>2, HoldImplies, PTL DEF Spec

-----------------------------------------------------------------------------
(***************************************************************************)
(* The exchange is asked once per order.                                    *)
(***************************************************************************)
\* A tick that is past its reads, and the orders that were sent or placed.
Past(t) == tick[t].step \in {"decide", "send"}
Sent(o) == placed[o] > 0 \/ \E e \in orders : e.order = o

\* The commands left to send are of the tick's bar.
Shaped == \A t \in Ticks : tick[t].step = "send" => tick[t].commands \in Shapes(tick[t].inst, tick[t].bar)

\* Of an instance that is not excused one tick at a time is past its reads; the
\* bar it works on is not marked yet; what a handler will write back is no newer
\* than the row.
Alone(i) == \A t, u \in Ticks : Past(t) /\ tick[t].inst = i /\ Past(u) /\ tick[u].inst = i => t = u
Unmarked(i) ==
  \A t \in Ticks : Past(t) /\ tick[t].inst = i =>
    portfolio[i].last < tick[t].bar /\ (tick[t].step = "send" => macro[i] = Month[tick[t].bar])
NoNewer(i) ==
  \A c \in Conns : handler[c].step = "read" /\ i \in About(handler[c].order) =>
    handler[c].rows[i].last <= portfolio[i].last

\* Its orders are sent or placed once: one that was is of a bar up to the one
\* worked on, the tick of the bar will not send it again, and no later tick will
\* ask for it.
SentOnce(o) ==
  placed[o] <= 1 /\ \A e, f \in orders : e.order = o /\ f.order = o => placed[o] = 0 /\ e = f
NotAhead(o) ==
  Sent(o) => o[3] <= bar /\ \A t \in Ticks : Past(t) /\ tick[t].inst = o[1] => o[3] <= tick[t].bar
NotAgain(o) ==
  Sent(o) => \A t \in Ticks : tick[t].inst = o[1] /\ tick[t].bar = o[3] =>
    /\ tick[t].step = "decide" => o[2] = "MACRO" /\ tick[t].macro = Month[o[3]]
    /\ tick[t].step = "send" => o \notin ToSet(tick[t].commands) /\ (o[2] = "MICRO" => tick[t].commands = <<>>)
NotDue(o) ==
  Sent(o) /\ o[3] = bar =>
    \/ o[2] = "MACRO" /\ macro[o[1]] = Month[bar]
    \/ bar <= portfolio[o[1]].last
    \/ \E t \in Ticks : tick[t].inst = o[1] /\ tick[t].bar = bar /\ tick[t].step = "send" /\ tick[t].commands = <<>>

Turn(i) ==
  /\ Alone(i) /\ Unmarked(i) /\ NoNewer(i)
  /\ \A o \in Orders : o[1] = i => SentOnce(o) /\ NotAhead(o) /\ NotAgain(o) /\ NotDue(o)

TurnInv == Shaped /\ \A i \in Instances \ excused : Turn(i)

\* An order names its instance, engine and bar.
LEMMA OrderParts ==
  ASSUME NEW o \in Orders
  PROVE  /\ o[1] \in Instances /\ o[2] \in {"MACRO", "MICRO"} /\ o[3] \in 1..MaxBar
         /\ o = <<o[1], o[2], o[3]>>
BY DEF Orders

\* The steps that start nothing for the instance and end no tick that has sent
\* everything.
LEMMA TurnQuiet ==
  ASSUME TypeInv, NEW i \in Instances, Turn(i), bar' = bar, macro'[i] = macro[i],
         portfolio'[i].last = portfolio[i].last,
         \A t \in Ticks : \/ tick'[t] = tick[t]
                          \/ tick[t].inst # i /\ tick'[t].inst # i
                          \/ /\ tick'[t].step \notin {"decide", "send"}
                             /\ tick[t].inst = i /\ tick[t].step = "send" => tick[t].commands # <<>>,
         \A c \in Conns : \/ handler'[c] = handler[c]
                          \/ handler'[c].step = "read" => handler'[c].rows[i].last <= portfolio[i].last,
         \A o \in Orders : o[1] = i => (Sent(o)' => Sent(o)) /\ (SentOnce(o) => SentOnce(o)')
  PROVE  Turn(i)'
<1>1. \A t \in Ticks : Past(t)' /\ tick'[t].inst = i => Past(t) /\ tick'[t] = tick[t]
  BY DEF Past
<1>2. Alone(i)' /\ Unmarked(i)'
  BY <1>1 DEF Turn, Alone, Unmarked
<1>3. NoNewer(i)'
  BY DEF Turn, NoNewer
<1> SUFFICES ASSUME NEW o \in Orders, o[1] = i
             PROVE  SentOnce(o)' /\ NotAhead(o)' /\ NotAgain(o)' /\ NotDue(o)'
  BY <1>2, <1>3 DEF Turn
<1>4. SentOnce(o)' /\ (Sent(o)' => Sent(o)) /\ NotAhead(o) /\ NotAgain(o) /\ NotDue(o)
  BY DEF Turn
<1>5. NotAhead(o)'
  BY <1>1, <1>4 DEF NotAhead
<1>6. NotAgain(o)'
  BY <1>1, <1>4 DEF NotAgain, Past
<1>7. NotDue(o)'
  BY <1>4 DEF NotDue
<1> QED
  BY <1>4, <1>5, <1>6, <1>7

\* Fewer commands and the same placements.
LEMMA SentLess ==
  ASSUME orders' \subseteq orders, placed' = placed, NEW o
  PROVE  (Sent(o)' => Sent(o)) /\ (SentOnce(o) => SentOnce(o)')
BY DEF Sent, SentOnce

\* A tick reads the row: no other of the instance is past its reads, so what was
\* sent of the bar is the purchase, which is done by the runtime state it reads.
LEMMA LoadTurns ==
  ASSUME TypeInv, NEW t \in Ticks, Load(t), NEW i \in Instances \ excused', Turn(i)
  PROVE  Turn(i)'
<1>1. /\ tick[t].step = "load" /\ UNCHANGED <<bar, portfolio, macro, orders, handler, placed>>
  BY DEF Load, database
<1>2. \A o : (Sent(o)' <=> Sent(o)) /\ (SentOnce(o)' <=> SentOnce(o))
  BY <1>1 DEF Sent, SentOnce
<1> DEFINE new == [tick[t] EXCEPT !.step = "decide", !.bar = bar, !.row = portfolio[tick[t].inst],
                                  !.macro = macro[tick[t].inst]]
<1>3. tick[t] \in TickStates
  BY DEF TypeInv, TicksOK
<1>4. new.step = "decide" /\ new.bar = bar /\ new.inst = tick[t].inst /\ new.macro = macro[tick[t].inst]
  <2> DEFINE s == tick[t]
  <2>1. s \in TickStates
    BY <1>3
  <2> HIDE DEF s
  <2>2. LET n == [s EXCEPT !.step = "decide", !.bar = bar, !.row = portfolio[tick[t].inst],
                           !.macro = macro[tick[t].inst]]
        IN n.step = "decide" /\ n.bar = bar /\ n.inst = s.inst /\ n.macro = macro[tick[t].inst]
    BY <2>1 DEF TickStates
  <2> QED
    BY <2>2 DEF s
<1>5. \/ tick' = [tick EXCEPT ![t] = NoTick]
      \/ /\ tick' = [tick EXCEPT ![t] = new]
         /\ portfolio[tick[t].inst].last < bar
  <2>1. ~Processed(bar, portfolio[tick[t].inst].last) => portfolio[tick[t].inst].last < bar
    <3>1. tick[t].inst \in Instances
      BY <1>1 DEF TypeInv, TicksOK
    <3>2. bar \in Nat /\ portfolio[tick[t].inst].last \in Nat
      BY <3>1, SomeBar DEF TypeInv, TypeOK
    <3> QED
      BY <3>2 DEF Processed
  <2> QED
    BY <2>1 DEF Load
<1> HIDE DEF new
<1>6. CASE tick' = [tick EXCEPT ![t] = NoTick] \/ tick[t].inst # i
  <2>1. \A u \in Ticks : \/ tick'[u] = tick[u]
                         \/ tick[u].inst # i /\ tick'[u].inst # i
                         \/ tick'[u].step \notin {"decide", "send"} /\ tick[u].step # "send"
    BY <1>1, <1>4, <1>5, <1>6 DEF TypeInv, TicksOK, NoTick
  <2> QED
    BY <1>1, <1>2, <2>1, TurnQuiet
<1>7. CASE tick' = [tick EXCEPT ![t] = new] /\ portfolio[tick[t].inst].last < bar /\ tick[t].inst = i
  <2>1. ~Overlaps(t)
    BY <1>7 DEF Load
  <2>2. \A u \in Ticks : tick'[u] = IF u = t THEN new ELSE tick[u]
    BY <1>7 DEF TypeInv, TicksOK
  <2>3. \A u \in Ticks \ {t} : tick[u].inst = i => tick[u].step = "load"
    BY <1>7, <2>1 DEF Overlaps
  <2>4. \A u \in Ticks : tick'[u].inst = i /\ tick'[u].step \in {"decide", "send"} => u = t
    BY <2>2, <2>3
  <2>5. Alone(i)' /\ Unmarked(i)' /\ NoNewer(i)'
    BY <1>1, <1>4, <1>7, <2>2, <2>4 DEF Alone, Unmarked, NoNewer, Past, Turn
  <2> SUFFICES ASSUME NEW o \in Orders, o[1] = i
               PROVE  SentOnce(o)' /\ NotAhead(o)' /\ NotAgain(o)' /\ NotDue(o)'
    BY <2>5 DEF Turn
  <2>6. SentOnce(o) /\ NotAhead(o) /\ NotAgain(o) /\ NotDue(o)
    BY DEF Turn
  <2>7. SentOnce(o)' /\ NotAhead(o)'
    BY <1>1, <1>2, <1>4, <2>2, <2>4, <2>6 DEF NotAhead, Past
  <2>8. Sent(o) /\ o[3] = bar => o[2] = "MACRO" /\ macro[i] = Month[bar]
    <3>1. ~(bar <= portfolio[i].last)
      <4>1. bar \in Nat /\ portfolio[i].last \in Nat
        BY SomeBar DEF TypeInv, TypeOK
      <4> QED
        BY <1>7, <4>1
    <3> QED
      BY <1>1, <1>7, <2>3, <2>6, <3>1 DEF NotDue
  <2>9. NotAgain(o)'
    BY <1>1, <1>2, <1>4, <1>7, <2>2, <2>4, <2>8 DEF NotAgain
  <2>10. NotDue(o)'
    BY <1>1, <1>2, <2>8 DEF NotDue
  <2> QED
    BY <2>7, <2>9, <2>10
<1> QED
  BY <1>5, <1>6, <1>7

\* A tick decides: it asks for nothing that was sent, and the runtime state says
\* from now on that the purchase is done.
LEMMA DecideTurns ==
  ASSUME TypeInv, NEW t \in Ticks, Decide(t), NEW i \in Instances \ excused', Turn(i)
  PROVE  Turn(i)'
<1> DEFINE j == tick[t].inst
<1>1. /\ tick[t].step = "decide" /\ UNCHANGED <<bar, orders, handler, placed>>
      /\ macro' = [macro EXCEPT ![j] = Month[tick[t].bar]]
  BY DEF Decide
<1>2. \A o : (Sent(o)' <=> Sent(o)) /\ (SentOnce(o)' <=> SentOnce(o))
  BY <1>1 DEF Sent, SentOnce
<1>3. PICK commands \in Intents(t) : tick' = [tick EXCEPT ![t].step = "send", ![t].commands = commands]
  BY DEF Decide
<1> DEFINE new == [tick[t] EXCEPT !.step = "send", !.commands = commands]
<1>4. new.step = "send" /\ new.bar = tick[t].bar /\ new.inst = j /\ new.commands = commands
  <2> DEFINE s == tick[t]
  <2>1. s \in TickStates
    BY DEF TypeInv, TicksOK
  <2> HIDE DEF s
  <2>2. LET n == [s EXCEPT !.step = "send", !.commands = commands]
        IN n.step = "send" /\ n.bar = s.bar /\ n.inst = s.inst /\ n.commands = commands
    BY <2>1 DEF TickStates
  <2> QED
    BY <2>2 DEF s
<1>5. \A u \in Ticks : tick'[u] = IF u = t THEN new ELSE tick[u]
  BY <1>3 DEF TypeInv, TicksOK
<1> HIDE DEF new
<1>6. \A k \in Instances : portfolio'[k].last = portfolio[k].last
  <2>1. \/ portfolio' = portfolio
        \/ portfolio' = [portfolio EXCEPT ![j].fills = tick[t].row.fills]
    BY DEF Decide
  <2> SUFFICES ASSUME NEW k \in Instances PROVE portfolio'[k].last = portfolio[k].last
    OBVIOUS
  <2> DEFINE row == portfolio[k]
  <2>2. row \in Rows
    BY DEF TypeInv, TypeOK, Rows
  <2>3. portfolio'[k] = row \/ portfolio'[k] = [row EXCEPT !.fills = tick[t].row.fills]
    BY ZenonT(60), <2>1 DEF TypeInv, TypeOK
  <2> HIDE DEF row
  <2>4. portfolio'[k].last = row.last
    BY <2>2, <2>3 DEF Rows
  <2> QED
    BY <2>4 DEF row
<1>7. CASE j # i
  <2>1. macro'[i] = macro[i]
    BY <1>1, <1>7 DEF TypeInv, TypeOK
  <2>2. \A u \in Ticks : tick'[u] = tick[u] \/ (tick[u].inst # i /\ tick'[u].inst # i)
    BY <1>4, <1>5, <1>7
  <2> QED
    BY <1>1, <1>2, <1>6, <2>1, <2>2, TurnQuiet
<1>8. CASE j = i
  <2>1. macro'[i] = Month[tick[t].bar]
    BY <1>1, <1>8 DEF TypeInv, TypeOK
  <2>2. \A u \in Ticks : tick[u].inst = i /\ tick[u].step \in {"decide", "send"} => u = t
    BY <1>1, <1>8 DEF Turn, Alone, Past
  <2>3. \A u \in Ticks : tick'[u].inst = i /\ tick'[u].step \in {"decide", "send"} => u = t
    BY <1>5, <2>2
  <2>4. Alone(i)' /\ Unmarked(i)' /\ NoNewer(i)'
    BY <1>1, <1>4, <1>5, <1>6, <1>8, <2>1, <2>3 DEF Turn, Alone, Unmarked, NoNewer, Past
  <2> SUFFICES ASSUME NEW o \in Orders, o[1] = i
               PROVE  SentOnce(o)' /\ NotAhead(o)' /\ NotAgain(o)' /\ NotDue(o)'
    BY <2>4 DEF Turn
  <2>5. SentOnce(o) /\ NotAhead(o) /\ NotAgain(o)
    BY DEF Turn
  <2>6. SentOnce(o)' /\ NotAhead(o)'
    BY <1>1, <1>2, <1>4, <1>5, <1>8, <2>3, <2>5 DEF NotAhead, Past
  <2>7. Sent(o) /\ o[3] = tick[t].bar => o[2] = "MACRO" /\ tick[t].macro = Month[o[3]]
    BY <1>1, <1>8, <2>5 DEF NotAgain
  <2>8. Sent(o) /\ o[3] = tick[t].bar => o \notin ToSet(commands)
    <3> SUFFICES ASSUME Sent(o), o[3] = tick[t].bar PROVE o \notin ToSet(commands)
      OBVIOUS
    <3>1. commands \in {<<>>, << <<j, "MICRO", tick[t].bar>> >>}
      BY <2>7, IntentShapes
    <3>2. o # <<j, "MICRO", tick[t].bar>>
      BY <2>7
    <3> DEFINE m == <<j, "MICRO", tick[t].bar>>
    <3> HIDE DEF m
    <3>3. ToSet(<<>>) = {} /\ ToSet(<<m>>) = {m}
      BY DEF ToSet
    <3> QED
      BY <3>1, <3>2, <3>3 DEF m
  <2>9. NotAgain(o)'
    BY <1>2, <1>4, <1>5, <1>8, <2>3, <2>7, <2>8 DEF NotAgain
  <2>10. Sent(o) /\ o[3] = bar => tick[t].bar = bar
    <3>1. o[3] \in Nat /\ bar \in Nat /\ tick[t].bar \in Nat /\ tick[t].bar <= bar
      BY <1>1, OrderParts, SomeBar DEF TypeInv, TypeOK, TicksOK
    <3>2. Sent(o) => o[3] <= tick[t].bar
      BY <1>1, <1>8, <2>5 DEF NotAhead, Past
    <3> QED
      BY <3>1, <3>2
  <2>11. NotDue(o)'
    BY <1>1, <1>2, <2>1, <2>7, <2>10 DEF NotDue
  <2> QED
    BY <2>6, <2>9, <2>11
<1> QED
  BY <1>7, <1>8

\* Taking the first command.
LEMMA ShapeFacts ==
  ASSUME NEW i, NEW b, NEW s \in Shapes(i, b), s # <<>>
  PROVE  /\ Head(s) \in {<<i, "MACRO", b>>, <<i, "MICRO", b>>}
         /\ Tail(s) \in Shapes(i, b)
         /\ Head(s) \in ToSet(s) /\ Head(s) \notin ToSet(Tail(s)) /\ ToSet(Tail(s)) \subseteq ToSet(s)
         /\ Head(s) = <<i, "MICRO", b>> => Tail(s) = <<>>
<1> DEFINE d == <<i, "MACRO", b>>
           m == <<i, "MICRO", b>>
<1>1. d # m /\ s \in {<<d>>, <<m>>, <<d, m>>}
  BY DEF Shapes
<1> HIDE DEF d, m
<1>2. ToSet(<<>>) = {} /\ ToSet(<<d>>) = {d} /\ ToSet(<<m>>) = {m} /\ ToSet(<<d, m>>) = {d, m}
  <2>1. ToSet(<<>>) = {} /\ \A x : ToSet(<<x>>) = {x}
    BY DEF ToSet
  <2>2. DOMAIN <<d, m>> = {1, 2} /\ <<d, m>>[1] = d /\ <<d, m>>[2] = m
    OBVIOUS
  <2>3. ToSet(<<d, m>>) = {d, m}
    BY <2>2 DEF ToSet
  <2> QED
    BY <2>1, <2>3
<1>3. /\ Head(<<d>>) = d /\ Tail(<<d>>) = <<>> /\ Head(<<m>>) = m /\ Tail(<<m>>) = <<>>
      /\ Head(<<d, m>>) = d /\ Tail(<<d, m>>) = <<m>>
  OBVIOUS
<1>4. /\ Head(s) \in {d, m}
      /\ Tail(s) \in {<<>>, <<d>>, <<m>>, <<d, m>>}
      /\ Head(s) \in ToSet(s) /\ Head(s) \notin ToSet(Tail(s)) /\ ToSet(Tail(s)) \subseteq ToSet(s)
      /\ Head(s) = m => Tail(s) = <<>>
  BY <1>1, <1>2, <1>3
<1> QED
  BY <1>4 DEF Shapes, d, m

\* A command is sent for the first time.
LEMMA SendTurns ==
  ASSUME TypeInv, Shaped, NEW t \in Ticks, Send(t), NEW i \in Instances \ excused', Turn(i)
  PROVE  Turn(i)'
<1> DEFINE p == Head(tick[t].commands)
           j == tick[t].inst
           new == [tick[t] EXCEPT !.commands = Tail(tick[t].commands)]
<1>1. /\ tick[t].step = "send" /\ tick[t].commands # <<>>
      /\ UNCHANGED <<bar, macro, portfolio, handler, placed>>
  BY DEF Send, database
<1>2. /\ tick[t].commands \in Shapes(j, tick[t].bar)
      /\ p \in {<<j, "MACRO", tick[t].bar>>, <<j, "MICRO", tick[t].bar>>}
      /\ p \in ToSet(tick[t].commands) /\ p \notin ToSet(Tail(tick[t].commands))
      /\ ToSet(Tail(tick[t].commands)) \subseteq ToSet(tick[t].commands)
      /\ p = <<j, "MICRO", tick[t].bar>> => Tail(tick[t].commands) = <<>>
  BY <1>1, ShapeFacts DEF Shaped
<1>3. new.step = "send" /\ new.bar = tick[t].bar /\ new.inst = j /\ new.commands = Tail(tick[t].commands)
      /\ new.macro = tick[t].macro
  <2> DEFINE s == tick[t]
  <2>1. s \in TickStates
    BY DEF TypeInv, TicksOK
  <2> HIDE DEF s
  <2>2. LET n == [s EXCEPT !.commands = Tail(s.commands)]
        IN n.step = s.step /\ n.bar = s.bar /\ n.inst = s.inst /\ n.commands = Tail(s.commands) /\ n.macro = s.macro
    BY <2>1 DEF TickStates
  <2> QED
    BY <1>1, <2>2 DEF s
<1>4. \A u \in Ticks : tick'[u] = IF u = t THEN new ELSE tick[u]
  BY DEF Send, TypeInv, TicksOK
<1>5. PICK k : orders' \in {orders, orders \cup {[conn |-> registered, order |-> p, copy |-> k]}}
  BY DEF Send
<1> DEFINE e == [conn |-> registered, order |-> p, copy |-> k]
<1>6. e.order = p
  OBVIOUS
<1> HIDE DEF new, p, e
<1>7. orders \subseteq orders' /\ \A f \in orders' : f \in orders \/ f = e
  BY <1>5 DEF e
<1>8. ASSUME NEW o, o # p PROVE (Sent(o)' => Sent(o)) /\ (SentOnce(o) => SentOnce(o)')
  BY <1>1, <1>6, <1>7, <1>8 DEF Sent, SentOnce
<1>9. CASE j # i
  <2>1. \A u \in Ticks : tick'[u] = tick[u] \/ (tick[u].inst # i /\ tick'[u].inst # i)
    BY <1>3, <1>4, <1>9
  <2>2. \A o \in Orders : o[1] = i => (Sent(o)' => Sent(o)) /\ (SentOnce(o) => SentOnce(o)')
    BY <1>2, <1>8, <1>9
  <2> QED
    BY <1>1, <2>1, <2>2, TurnQuiet
<1>10. CASE j = i
  <2>1. \A u \in Ticks : tick[u].inst = i /\ tick[u].step \in {"decide", "send"} => u = t
    BY <1>1, <1>10 DEF Turn, Alone, Past
  <2>2. \A u \in Ticks : tick'[u].inst = i /\ tick'[u].step \in {"decide", "send"} => u = t
    BY <1>4, <2>1
  <2>3. macro[i] = Month[tick[t].bar]
    BY <1>1, <1>10 DEF Turn, Unmarked, Past
  <2>4. Alone(i)' /\ Unmarked(i)' /\ NoNewer(i)'
    BY <1>1, <1>3, <1>4, <1>10, <2>2 DEF Turn, Alone, Unmarked, NoNewer, Past
  <2> SUFFICES ASSUME NEW o \in Orders, o[1] = i
               PROVE  SentOnce(o)' /\ NotAhead(o)' /\ NotAgain(o)' /\ NotDue(o)'
    BY <2>4 DEF Turn
  <2>5. SentOnce(o) /\ NotAhead(o) /\ NotAgain(o) /\ NotDue(o)
    BY DEF Turn
  <2>6. CASE o = p
    <3>1. o[3] = tick[t].bar /\ (o[2] = "MICRO" => new.commands = <<>>) /\ o \notin ToSet(new.commands)
      BY <1>2, <1>3, <2>6
    <3>2. ~Sent(o)
      BY <1>1, <1>2, <1>10, <2>5, <2>6, <3>1 DEF NotAgain
    <3>3. SentOnce(o)'
      <4>1. placed[o] \in 0..2 /\ ~(placed[o] > 0) /\ \A f \in orders : f.order # o
        BY <3>2 DEF Sent, TypeInv
      <4> QED
        BY <1>1, <1>7, <4>1 DEF SentOnce
    <3>4. o[3] <= bar /\ o[3] <= tick[t].bar
      BY <1>1, <3>1, SomeBar DEF TypeInv, TypeOK, TicksOK
    <3>5. NotAhead(o)'
      BY <1>1, <1>3, <1>4, <1>10, <2>2, <3>4 DEF NotAhead, Past
    <3>6. NotAgain(o)'
      BY <1>3, <1>4, <1>10, <2>2, <3>1 DEF NotAgain
    <3>7. NotDue(o)'
      BY <1>1, <1>3, <1>4, <1>10, <2>3, <3>1, OrderParts DEF NotDue
    <3> QED
      BY <3>3, <3>5, <3>6, <3>7
  <2>7. CASE o # p
    <3>1. (Sent(o)' => Sent(o)) /\ SentOnce(o)'
      BY <1>8, <2>5, <2>7
    <3>2. NotAhead(o)'
      BY <1>1, <1>3, <1>4, <1>10, <2>2, <2>5, <3>1 DEF NotAhead, Past
    <3>3. NotAgain(o)'
      BY <1>1, <1>2, <1>3, <1>4, <1>10, <2>2, <2>5, <3>1 DEF NotAgain
    <3>4. NotDue(o)'
      BY <1>1, <1>3, <1>4, <2>5, <3>1 DEF NotDue
    <3> QED
      BY <3>1, <3>2, <3>3, <3>4
  <2> QED
    BY <2>6, <2>7
<1> QED
  BY <1>9, <1>10

\* The bar is marked: no later tick works on it.
LEMMA MarkTurns ==
  ASSUME TypeInv, NEW t \in Ticks, Mark(t), NEW i \in Instances \ excused', Turn(i)
  PROVE  Turn(i)'
<1> DEFINE j == tick[t].inst
<1>1. /\ tick[t].step = "send" /\ UNCHANGED <<bar, macro, orders, handler, placed>>
      /\ tick' = [tick EXCEPT ![t] = NoTick]
      /\ portfolio' = [portfolio EXCEPT ![j] = [portfolio[j] EXCEPT !.last = tick[t].bar]]
  BY DEF Mark, Marked, network, history
<1>2. \A o : (Sent(o)' <=> Sent(o)) /\ (SentOnce(o)' <=> SentOnce(o))
  BY <1>1 DEF Sent, SentOnce
<1>3. \A u \in Ticks : tick'[u] = IF u = t THEN NoTick ELSE tick[u]
  BY <1>1 DEF TypeInv, TicksOK
<1>4. portfolio'[i].last = IF j = i THEN tick[t].bar ELSE portfolio[i].last
  <2> DEFINE row == portfolio[i]
  <2>1. row \in Rows
    BY DEF TypeInv, TypeOK, Rows
  <2>2. portfolio'[i] = IF j = i THEN [row EXCEPT !.last = tick[t].bar] ELSE row
    BY <1>1 DEF TypeInv, TypeOK
  <2> HIDE DEF row
  <2>3. portfolio'[i].last = IF j = i THEN tick[t].bar ELSE row.last
    BY <2>1, <2>2 DEF Rows
  <2> QED
    BY <2>3 DEF row
<1>5. CASE j # i
  <2>1. \A u \in Ticks : \/ tick'[u] = tick[u]
                         \/ tick'[u].step \notin {"decide", "send"} /\ tick[u].inst # i
    BY <1>3, <1>5 DEF NoTick
  <2> QED
    BY <1>1, <1>2, <1>4, <1>5, <2>1, TurnQuiet
<1>6. CASE j = i
  <2>1. \A u \in Ticks : ~(tick'[u].inst = i /\ tick'[u].step \in {"decide", "send"})
    BY <1>1, <1>3, <1>6 DEF Turn, Alone, Past, NoTick
  <2>2. portfolio[i].last < tick[t].bar
    BY <1>1, <1>6 DEF Turn, Unmarked, Past
  <2>3. Alone(i)' /\ Unmarked(i)'
    BY <2>1 DEF Alone, Unmarked, Past
  <2>4. NoNewer(i)'
    <3> SUFFICES ASSUME NEW c \in Conns, handler[c].step = "read", i \in About(handler[c].order)
                 PROVE  handler[c].rows[i].last <= tick[t].bar
      BY <1>1, <1>4, <1>6 DEF NoNewer, About
    <3>1. handler[c].rows[i].last <= portfolio[i].last
      BY DEF Turn, NoNewer
    <3>2. handler[c].rows[i].last \in Nat /\ portfolio[i].last \in Nat /\ tick[t].bar \in Nat
      BY SomeBar DEF TypeInv, TypeOK, TicksOK, HandlerStates, TickStates, Rows
    <3> QED
      BY <2>2, <3>1, <3>2
  <2> SUFFICES ASSUME NEW o \in Orders, o[1] = i
               PROVE  SentOnce(o)' /\ NotAhead(o)' /\ NotAgain(o)' /\ NotDue(o)'
    BY <2>3, <2>4 DEF Turn
  <2>5. SentOnce(o) /\ NotAhead(o)
    BY DEF Turn
  <2>6. SentOnce(o)' /\ NotAhead(o)' /\ NotAgain(o)'
    BY <1>1, <1>2, <2>1, <2>5 DEF NotAhead, NotAgain, Past
  <2>7. Sent(o) /\ o[3] = bar => bar <= tick[t].bar
    BY <1>1, <1>6, <2>5 DEF NotAhead, Past
  <2>8. NotDue(o)'
    BY <1>1, <1>2, <1>4, <1>6, <2>7 DEF NotDue
  <2> QED
    BY <2>6, <2>8
<1> QED
  BY <1>5, <1>6

\* The exchange takes the one command that there is.
LEMMA ExecuteTurns ==
  ASSUME TypeInv, NEW e \in orders, NEW filled \in BOOLEAN, NEW answered \in BOOLEAN,
         Execute(e, filled, answered), NEW i \in Instances \ excused', Turn(i)
  PROVE  Turn(i)'
<1>1. /\ UNCHANGED <<bar, macro, portfolio, tick, handler>>
      /\ orders' = orders \ {e}
      /\ placed' = [placed EXCEPT ![e.order] = IF filled /\ @ < 2 THEN @ + 1 ELSE @]
  BY DEF Execute, database
<1>2. ASSUME NEW o \in Orders, o[1] = i PROVE (Sent(o)' => Sent(o)) /\ SentOnce(o)'
  <2>1. SentOnce(o) /\ placed \in [Orders -> 0..2] /\ e.order \in Orders
    BY <1>2 DEF Turn, TypeInv, TypeOK
  <2>2. CASE o # e.order
    BY <1>1, <2>1, <2>2 DEF Sent, SentOnce
  <2>3. CASE o = e.order
    <3>1. placed[o] = 0 /\ \A f \in orders : f.order = o => f = e
      BY <2>1, <2>3 DEF SentOnce
    <3>2. Sent(o) /\ placed'[o] <= 1 /\ \A f \in orders' : f.order # o
      BY <1>1, <2>1, <2>3, <3>1 DEF Sent
    <3> QED
      BY <3>2 DEF SentOnce
  <2> QED
    BY <2>2, <2>3
<1> QED
  BY <1>1, <1>2, TurnQuiet

\* The shape of the commands is kept.
LEMMA ShapedStep ==
  ASSUME TypeInv, Shaped, [Next]_vars
  PROVE  Shaped'
<1>1. CASE \A t \in Ticks : tick'[t] = tick[t] \/ tick'[t].step # "send"
  BY <1>1 DEF Shaped
<1>2. CASE NewBar \/ Agent \/ UNCHANGED vars
  BY <1>1, <1>2 DEF NewBar, Agent, Execute, vars
<1>10. CASE Crash
  BY <1>10 DEF Crash, NoTick, Shaped
<1>3. ASSUME NEW i \in Instances, Start(i) \/ Stop(i) \/ Delete(i)
      PROVE  Shaped'
  BY <1>1, <1>3 DEF Start, Stop, Delete, SetStatus
<1>4. ASSUME NEW i \in Instances, Scan(i)
      PROVE  Shaped'
  <2>1. PICK t \in Ticks : tick' = [tick EXCEPT ![t] = [NoTick EXCEPT !.step = "load", !.inst = i]]
    BY <1>4 DEF Scan
  <2> QED
    BY <1>1, <2>1 DEF NoTick, TypeInv, TicksOK
<1>5. ASSUME NEW t \in Ticks, NotConnected(t) \/ Fail(t) \/ Mark(t)
      PROVE  Shaped'
  <2>1. tick' = [tick EXCEPT ![t] = NoTick]
    BY <1>5 DEF NotConnected, Fail, Mark
  <2> QED
    BY <1>1, <2>1 DEF NoTick, TypeInv, TicksOK
<1>6. ASSUME NEW t \in Ticks, Load(t)
      PROVE  Shaped'
  <2> DEFINE new == [tick[t] EXCEPT !.step = "decide", !.bar = bar, !.row = portfolio[tick[t].inst],
                                    !.macro = macro[tick[t].inst]]
  <2>1. tick' = [tick EXCEPT ![t] = NoTick] \/ tick' = [tick EXCEPT ![t] = new]
    BY <1>6 DEF Load
  <2>2. NoTick.step # "send" /\ new.step # "send"
    BY DEF NoTick, TypeInv, TicksOK, TickStates
  <2> HIDE DEF new
  <2> QED
    BY <1>1, <2>1, <2>2 DEF TypeInv, TicksOK
<1>7. ASSUME NEW t \in Ticks, Decide(t)
      PROVE  Shaped'
  <2>1. PICK commands \in Intents(t) : tick' = [tick EXCEPT ![t].step = "send", ![t].commands = commands]
    BY <1>7 DEF Decide
  <2>2. commands \in Shapes(tick[t].inst, tick[t].bar)
    BY IntentShapes
  <2>3. \A u \in Ticks : u # t => tick'[u] = tick[u]
    BY <2>1 DEF TypeInv, TicksOK
  <2>4. tick'[t].inst = tick[t].inst /\ tick'[t].bar = tick[t].bar /\ tick'[t].commands = commands
    BY <2>1 DEF TypeInv, TicksOK, TickStates
  <2> QED
    BY <2>2, <2>3, <2>4 DEF Shaped
<1>8. ASSUME NEW t \in Ticks, Send(t)
      PROVE  Shaped'
  <2>1. /\ tick[t].step = "send" /\ tick[t].commands # <<>>
        /\ tick' = [tick EXCEPT ![t].commands = Tail(@)]
    BY <1>8 DEF Send
  <2>2. Tail(tick[t].commands) \in Shapes(tick[t].inst, tick[t].bar)
    BY <2>1, ShapeFacts DEF Shaped
  <2>3. \A u \in Ticks : u # t => tick'[u] = tick[u]
    BY <2>1 DEF TypeInv, TicksOK
  <2>4. /\ tick'[t].inst = tick[t].inst /\ tick'[t].bar = tick[t].bar
        /\ tick'[t].commands = Tail(tick[t].commands)
    BY <2>1 DEF TypeInv, TicksOK, TickStates
  <2> QED
    BY <2>2, <2>3, <2>4 DEF Shaped
<1>9. ASSUME NEW c \in Conns, Connect(c) \/ Drop(c) \/ Handle(c)
      PROVE  Shaped'
  <2>1. tick' = tick
    BY <1>9 DEF Connect, Drop, Handle, Welcome, HandlerEnds, Check, BookFailed, ReadPortfolio, SavePortfolio
  <2> QED
    BY <1>1, <2>1
<1> QED
  BY <1>2, <1>3, <1>4, <1>5, <1>6, <1>7, <1>8, <1>9, <1>10 DEF Next, Step

\* Every step keeps the turn of the instances that are not excused.
LEMMA TurnStep ==
  ASSUME TypeInv, TurnInv, [Next]_vars
  PROVE  TurnInv'
<1> SUFFICES ASSUME NEW i \in Instances \ excused' PROVE Turn(i)'
  BY ShapedStep DEF TurnInv
<1>0. excused \subseteq excused'
  <2>1. CASE UNCHANGED excused
    BY <2>1
  <2>2. ASSUME NEW t \in Ticks, Load(t) \/ Fail(t) PROVE excused \subseteq excused'
    BY <2>2 DEF Load, Fail
  <2>3. ASSUME NEW c \in Conns, SavePortfolio(c) PROVE excused \subseteq excused'
    BY <2>3 DEF SavePortfolio
  <2>4. CASE Crash
    BY <2>4 DEF Crash
  <2>5. ASSUME NEW t \in Ticks, Decide(t) \/ Send(t) \/ NotConnected(t) \/ Mark(t) PROVE excused \subseteq excused'
    BY <2>5 DEF Decide, Send, NotConnected, Mark, history
  <2>6. ASSUME NEW c \in Conns, Connect(c) \/ Drop(c) \/ Welcome(c) \/ HandlerEnds(c) \/ Check(c) \/ BookFailed(c)
                 \/ ReadPortfolio(c)
        PROVE  excused \subseteq excused'
    BY <2>6 DEF Connect, Drop, Welcome, HandlerEnds, Check, BookFailed, ReadPortfolio, history
  <2>7. ASSUME NEW k \in Instances, Start(k) \/ Stop(k) \/ Delete(k) \/ Scan(k) PROVE excused \subseteq excused'
    BY <2>7 DEF Start, Stop, Delete, SetStatus, Scan, history
  <2>8. CASE NewBar \/ Agent \/ UNCHANGED vars
    BY <2>8 DEF NewBar, Agent, Execute, vars, history
  <2> QED
    BY <2>2, <2>3, <2>4, <2>5, <2>6, <2>7, <2>8 DEF Next, Step, Handle
<1>1. i \in Instances /\ i \notin excused /\ Turn(i)
  BY <1>0 DEF TurnInv
<1> DEFINE Rest == UNCHANGED <<bar, macro, portfolio, placed>> /\ orders' \subseteq orders
           TicksGo == \A t \in Ticks : \/ tick'[t] = tick[t]
                                       \/ /\ tick'[t].step \notin {"decide", "send"}
                                          /\ tick[t].inst = i /\ tick[t].step = "send" => tick[t].commands # <<>>
           HandlersGo == \A c \in Conns : handler'[c] = handler[c] \/ handler'[c].step # "read"
<1>2. ASSUME Rest, TicksGo, HandlersGo PROVE Turn(i)'
  BY <1>1, <1>2, SentLess, TurnQuiet
<1>3. CASE NewBar
  <2>1. UNCHANGED <<macro, portfolio, placed, orders, tick, handler>> /\ bar' = bar + 1
    BY <1>3 DEF NewBar, database, network, history
  <2>2. \A o : (Sent(o)' <=> Sent(o)) /\ (SentOnce(o)' <=> SentOnce(o))
    BY <2>1 DEF Sent, SentOnce
  <2>3. Alone(i)' /\ Unmarked(i)' /\ NoNewer(i)'
    BY <1>1, <2>1 DEF Turn, Alone, Unmarked, NoNewer, Past, About
  <2> SUFFICES ASSUME NEW o \in Orders, o[1] = i
               PROVE  SentOnce(o)' /\ NotAhead(o)' /\ NotAgain(o)' /\ NotDue(o)'
    BY <2>3 DEF Turn
  <2>4. SentOnce(o) /\ NotAhead(o) /\ NotAgain(o)
    BY <1>1 DEF Turn
  <2>5. bar \in Nat /\ o[3] \in Nat
    BY SomeBar, OrderParts DEF TypeInv, TypeOK
  <2>6. NotAhead(o)' /\ (Sent(o) => o[3] # bar')
    BY <2>1, <2>2, <2>4, <2>5 DEF NotAhead, Past
  <2> QED
    BY <2>1, <2>2, <2>4, <2>6 DEF NotAgain, NotDue
<1>4. ASSUME NEW k \in Instances, Start(k) \/ Stop(k) \/ Delete(k) PROVE Turn(i)'
  BY <1>2, <1>4 DEF Start, Stop, Delete, SetStatus, database, network, history
<1>5. ASSUME NEW k \in Instances, Scan(k) PROVE Turn(i)'
  <2>1. /\ Rest /\ handler' = handler
        /\ \E t \in Ticks : tick[t].step = "idle"
        /\ tick' = [tick EXCEPT ![CHOOSE t \in Ticks : tick[t].step = "idle"] =
                      [NoTick EXCEPT !.step = "load", !.inst = k]]
    BY <1>5 DEF Scan, database, network, history
  <2>2. PICK t \in Ticks : tick[t].step = "idle" /\ tick' = [tick EXCEPT ![t] = [NoTick EXCEPT !.step = "load", !.inst = k]]
    BY <2>1
  <2>3. TicksGo
    BY <2>2 DEF NoTick, TypeInv, TicksOK
  <2> QED
    BY <1>2, <2>1, <2>3
<1>6. ASSUME NEW t \in Ticks, NotConnected(t) \/ Fail(t) PROVE Turn(i)'
  <2>1. Rest /\ handler' = handler /\ tick' = [tick EXCEPT ![t] = NoTick]
    BY <1>6 DEF NotConnected, Fail, database, network, history
  <2>2. tick[t].inst = i /\ tick[t].step = "send" => tick[t].commands # <<>>
    BY <1>6 DEF NotConnected, Fail
  <2>3. TicksGo
    BY <2>1, <2>2 DEF NoTick, TypeInv, TicksOK
  <2> QED
    BY <1>2, <2>1, <2>3
<1>7. ASSUME NEW c \in Conns, Connect(c) \/ Drop(c) \/ Welcome(c) \/ HandlerEnds(c) PROVE Turn(i)'
  <2>1. Rest /\ tick' = tick /\ handler' = handler
    BY <1>7 DEF Connect, Drop, Welcome, HandlerEnds, HangUp, database, history
  <2> QED
    BY <1>2, <2>1
<1>8. ASSUME NEW c \in Conns, Check(c) \/ BookFailed(c) PROVE Turn(i)'
  <2>1. Rest /\ tick' = tick
    BY <1>8 DEF Check, BookFailed, database, network, history
  <2>2. HandlersGo
    BY <1>8 DEF Check, BookFailed, NoReport, TypeInv
  <2> QED
    BY <1>2, <2>1, <2>2
<1>9. ASSUME NEW c \in Conns, ReadPortfolio(c) PROVE Turn(i)'
  <2>1. Rest /\ tick' = tick
    BY <1>9 DEF ReadPortfolio, database, network, history
  <2>2. \A d \in Conns : \/ handler'[d] = handler[d]
                         \/ handler'[d].step # "read"
                         \/ handler'[d].rows = portfolio
    BY <1>9 DEF ReadPortfolio, NoReport, TypeInv
  <2>3. portfolio[i].last <= portfolio[i].last
    BY <1>1, SomeBar DEF TypeInv, TypeOK
  <2>4. \A d \in Conns : \/ handler'[d] = handler[d]
                         \/ handler'[d].step = "read" => handler'[d].rows[i].last <= portfolio[i].last
    BY <2>2, <2>3
  <2> QED
    BY <1>1, <2>1, <2>4, SentLess, TurnQuiet
<1>10. ASSUME NEW c \in Conns, SavePortfolio(c) PROVE Turn(i)'
  <2>1. /\ UNCHANGED <<bar, macro, placed, orders, tick>> /\ handler[c].step = "read"
        /\ handler' = [handler EXCEPT ![c] = NoReport]
        /\ portfolio'[i] = IF i \in About(handler[c].order) THEN SavedRow(c, i) ELSE portfolio[i]
        /\ i \in About(handler[c].order) => ~(handler[c].rows[i].last < portfolio[i].last)
    BY <1>1, <1>10 DEF SavePortfolio, network
  <2>2. portfolio'[i].last = portfolio[i].last
    <3>1. CASE i \in About(handler[c].order)
      <4> DEFINE row == handler[c].rows[i]
      <4>1. row \in Rows /\ row.last \in Nat /\ portfolio[i].last \in Nat
        BY <1>1, SomeBar DEF TypeInv, TypeOK, HandlerStates, Rows
      <4>2. row.last <= portfolio[i].last
        BY <1>1, <2>1, <3>1 DEF Turn, NoNewer
      <4>3. row.last = portfolio[i].last
        BY <2>1, <3>1, <4>1, <4>2
      <4>4. portfolio'[i] = [row EXCEPT !.fills = @ \cup (Orders \cap {handler[c].order})]
        BY <2>1, <3>1 DEF SavedRow
      <4> HIDE DEF row
      <4> QED
        BY <4>1, <4>3, <4>4 DEF Rows
    <3>2. CASE i \notin About(handler[c].order)
      BY <2>1, <3>2
    <3> QED
      BY <3>1, <3>2
  <2>3. HandlersGo
    BY <2>1 DEF NoReport, TypeInv
  <2> QED
    BY <1>1, <2>1, <2>2, <2>3, SentLess, TurnQuiet
<1>11. CASE Agent
  BY <1>1, <1>11, ExecuteTurns DEF Agent
<1>12. CASE Crash
  <2>1. Rest /\ tick' = [t \in Ticks |-> NoTick] /\ handler' = [c \in Conns |-> NoReport]
    BY <1>12 DEF Crash, database
  <2>2. \A t \in Ticks : ~(tick[t].inst = i /\ tick[t].step = "send")
    BY <1>1, <1>12 DEF Crash
  <2>3. TicksGo /\ HandlersGo
    BY <2>1, <2>2 DEF NoTick, NoReport
  <2> QED
    BY <1>2, <2>1, <2>3
<1>13. CASE UNCHANGED vars
  BY <1>2, <1>13 DEF vars
<1>14. ASSUME NEW t \in Ticks, Load(t) \/ Decide(t) \/ Send(t) \/ Mark(t) PROVE Turn(i)'
  BY <1>1, <1>14, LoadTurns, DecideTurns, SendTurns, MarkTurns DEF TurnInv
<1> QED
  BY <1>3, <1>4, <1>5, <1>6, <1>7, <1>8, <1>9, <1>10, <1>11, <1>12, <1>13, <1>14 DEF Next, Step, Handle

\* The exchange fills an order twice only if the tick of its bar failed or crashed
\* while it sent, overlapped with another one, or was forgotten when a report saved
\* the portfolio: dropped connections, restarts and repeated scans alone do not.
THEOREM OrdersArePlacedOnce == Spec => []PlacedOnce
<1>1. Init => TypeInv /\ TurnInv
  <2> SUFFICES ASSUME Init PROVE TurnInv
    BY TypeInit
  <2>1. \A o \in Orders : ~Sent(o) /\ SentOnce(o)
    BY DEF Init, Sent, SentOnce
  <2>2. \A t \in Ticks : tick[t].step = "idle"
    BY DEF Init, NoTick
  <2>3. \A c \in Conns : handler[c].step = "idle"
    BY DEF Init, NoReport
  <2> QED
    BY <2>1, <2>2, <2>3 DEF TurnInv, Shaped, Turn, Alone, Unmarked, NoNewer, Past, NotAhead, NotAgain, NotDue
<1>2. TypeInv /\ TurnInv /\ [Next]_vars => (TypeInv /\ TurnInv)'
  BY TypeStep, TurnStep
<1>3. TypeInv /\ TurnInv => PlacedOnce
  <2> SUFFICES ASSUME TypeInv, TurnInv, NEW o \in Orders, placed[o] > 1 PROVE o[1] \in excused
    BY DEF PlacedOnce
  <2>1. placed[o] \in 0..2 /\ ~(placed[o] <= 1) /\ o[1] \in Instances
    BY OrderParts DEF TypeInv
  <2> QED
    BY <2>1 DEF TurnInv, Turn, SentOnce
<1> QED
  BY <1>1, <1>2, <1>3, PTL DEF Spec
=============================================================================
