------------------------- MODULE OfflineSaleProofs -------------------------
(***************************************************************************)
(* Theorems about OfflineSale, for any commands, requests, payloads and    *)
(* prices, with and without the counter on line, and any bounds.           *)
(***************************************************************************)
EXTENDS OfflineSale, TLAPS

\* The idle job is a well-formed one.
LEMMA IdleType == Idle \in Jobs
<1>1. (CHOOSE c \in Commands : TRUE) \in Commands
  BY OfflineAssumption
<1>. QED BY <1>1, OfflineAssumption DEF Idle, Jobs, Steps, Quantities

\* Nothing is a well-formed amount and a well-formed set of lines.
LEMMA NothingType == Nothing \in Amounts
BY OfflineAssumption DEF Nothing, Amounts, LineRows, NoLine

\* Moving a request on keeps the jobs well-formed.
LEMMA GotoType ==
    ASSUME job \in [Workers -> Jobs], NEW w \in Workers, NEW s \in Steps, Goto(w, s)
    PROVE  job' \in [Workers -> Jobs]
BY DEF Goto, Jobs

\* Ending a request, or turning its error into a failure, keeps the jobs well-formed.
LEMMA ThrowType ==
    ASSUME job \in [Workers -> Jobs], NEW w \in Workers, Throw(w) \/ Finish(w)
    PROVE  job' \in [Workers -> Jobs]
<1>1. CASE Finish(w)
  BY <1>1, IdleType DEF Finish
<1>2. CASE Goto(w, "fail")
  BY <1>2, GotoType DEF Steps
<1>. QED BY <1>1, <1>2 DEF Throw

\* A request that has read what it will price.
LEMMA ReaderRow ==
    ASSUME NEW r \in Jobs, NEW q \in Quantities
    PROVE  [r EXCEPT !.at = "price", !.read = q] \in Jobs
BY DEF Jobs, Steps

\* A request that has read the version it will commit.
LEMMA LookerRow ==
    ASSUME NEW r \in Jobs, NEW n \in Nat
    PROVE  [r EXCEPT !.at = "commit", !.version = n] \in Jobs
BY DEF Jobs, Steps

\* A new sale.
LEMMA InsertType ==
    ASSUME sale \in [Commands -> SaleRows], NEW c \in Commands, InsertSale(c)
    PROVE  sale' \in [Commands -> SaleRows]
<1>1. [status |-> "draft", version |-> 1, total |-> Nothing] \in SaleRows
  BY NothingType DEF SaleRows
<1>. QED BY <1>1 DEF InsertSale

\* A commit.
LEMMA CommitType ==
    ASSUME sale \in [Commands -> SaleRows], receipt \in [Commands -> Amounts], NEW c \in Commands,
           CommitDraft(c)
    PROVE  sale' \in [Commands -> SaleRows] /\ receipt' \in [Commands -> Amounts]
<1>1. sale[c].total \in Amounts
  BY DEF SaleRows
<1>2. receipt' \in [Commands -> Amounts]
  BY <1>1 DEF CommitDraft
<1>3. sale' \in [Commands -> SaleRows]
  BY DEF CommitDraft, SaleRows
<1>. QED BY <1>2, <1>3

\* An addition to a line of a draft that stays within the limit.
LEMMA AddType ==
    ASSUME line \in [Commands -> [Variants -> LineRows]], NEW c \in Commands, NEW v \in Variants,
           NEW q \in Nat, AddTo(c, v, q)
    PROVE  line' \in [Commands -> [Variants -> LineRows]]
<1>1. [quantity |-> line[c][v].quantity + q, price |-> 0] \in LineRows
  BY OfflineAssumption DEF AddTo, LineRows
<1>. QED BY <1>1 DEF AddTo

\* The status of a command.
LEMMA CommandType ==
    ASSUME command \in [Commands -> CommandRows], NEW c \in Commands,
           \/ \E s \in {"queued", "applied", "failed", "abandoned"} : SetCommand(c, s)
           \/ UNCHANGED command
    PROVE  command' \in [Commands -> CommandRows]
BY DEF SetCommand, CommandRows

\* A sale with a new version and total.
LEMMA PricedRow ==
    ASSUME NEW r \in SaleRows, NEW q \in Amounts
    PROVE  [r EXCEPT !.version = @ + 1, !.total = q] \in SaleRows
<1>1. r.version + 1 \in Nat
  BY DEF SaleRows
<1>. QED BY <1>1 DEF SaleRows

\* The lines and the total that a pricing writes.
LEMMA PriceType ==
    ASSUME TypeOK, NEW w \in Workers, NEW p \in [Variants -> Prices], Price(w, p)
    PROVE  /\ line' \in [Commands -> [Variants -> LineRows]]
           /\ sale' \in [Commands -> SaleRows]
           /\ job' \in [Workers -> Jobs]
<1>. DEFINE c == job[w].of
            quoted == [v \in Variants |-> IF job[w].read[v] = 0 THEN NoLine
                          ELSE [quantity |-> job[w].read[v], price |-> p[v]]]
            priced == [v \in Variants |-> [quantity |-> line[c][v].quantity,
                         price |-> IF job[w].read[v] = 0 THEN line[c][v].price ELSE p[v]]]
<1>0. c \in Commands /\ job[w].read \in Quantities
  BY DEF TypeOK, Jobs
<1>1. ASSUME NEW v \in Variants
      PROVE  quoted[v] \in LineRows /\ priced[v] \in LineRows
  <2>1. job[w].read[v] \in 0..MaxQuantity /\ line[c][v] \in LineRows /\ p[v] \in Prices
    BY <1>0 DEF TypeOK, Quantities
  <2>2. NoLine \in LineRows
    BY OfflineAssumption DEF NoLine, LineRows
  <2>. QED BY <2>1, <2>2 DEF LineRows
<1>2. quoted \in Amounts /\ priced \in [Variants -> LineRows]
  BY <1>1 DEF Amounts
<1>3. sale' = [sale EXCEPT ![c].version = @ + 1, ![c].total = quoted]
  BY DEF Price
<1>4. line' = [line EXCEPT ![c] = priced]
  BY <1>0 DEF Price, TypeOK
<1>. HIDE DEF quoted, priced, c
<1>5. sale' \in [Commands -> SaleRows]
  <2>1. sale[c] \in SaleRows
    BY <1>0 DEF TypeOK
  <2>2. [sale[c] EXCEPT !.version = @ + 1, !.total = quoted] \in SaleRows
    BY <1>2, <2>1, PricedRow
  <2>. QED BY <1>0, <1>3, <2>2 DEF TypeOK
<1>6. line' \in [Commands -> [Variants -> LineRows]]
  BY <1>0, <1>2, <1>4 DEF TypeOK
<1>7. job' \in [Workers -> Jobs]
  <2>1. CASE Goto(w, "look")
    BY <2>1, GotoType DEF Steps, TypeOK
  <2>. QED BY <2>1, ThrowType DEF Price, TypeOK
<1>. QED BY <1>5, <1>6, <1>7

\* The initial state.
LEMMA InitType == Init => TypeOK
<1>. SUFFICES ASSUME Init PROVE TypeOK
  OBVIOUS
<1>1. job \in [Workers -> Jobs] /\ receipt \in [Commands -> Amounts]
  BY IdleType, NothingType DEF Init
<1>2. sale \in [Commands -> SaleRows]
  BY NothingType DEF Init, SaleRows
<1>3. line \in [Commands -> [Variants -> LineRows]]
  BY NothingType DEF Init, Amounts
<1>4. command \in [Commands -> CommandRows] /\ crashes \in 0..MaxCrashes
  BY OfflineAssumption DEF Init, CommandRows
<1>. QED BY <1>1, <1>2, <1>3, <1>4 DEF Init, TypeOK

(* Type correctness. *)
THEOREM TypeCorrect == Spec => []TypeOK
<1>1. Init => TypeOK
  BY InitType
<1>2. TypeOK /\ [Next]_vars => TypeOK'
  <2>. SUFFICES ASSUME TypeOK, [Next]_vars PROVE TypeOK'
    OBVIOUS
  <2>1. ASSUME NEW w \in Workers, JobStep(w) PROVE TypeOK'
    <3>. DEFINE c == job[w].of
    <3>0. c \in Commands /\ job[w] \in Jobs
      BY DEF TypeOK, Jobs
    <3>. USE DEF saleVars, history
    <3>1. CASE CreateDraft(w)
      <4>1. job' \in [Workers -> Jobs]
        <5>1. Goto(w, "mark") \/ Goto(w, "line")
          BY <3>1 DEF CreateDraft
        <5>. QED BY <5>1, GotoType DEF Steps, TypeOK
      <4>2. sale' \in [Commands -> SaleRows]
        BY <3>0, <3>1, InsertType DEF CreateDraft, TypeOK
      <4>. QED BY <3>1, <4>1, <4>2 DEF CreateDraft, TypeOK
    <3>2. CASE ApplyLine(w)
      <4>1. PICK v \in NextLine(w) :
                /\ AddTo(c, v, Payload[c][v])
                /\ effects' = [effects EXCEPT ![c] = @ \cup {v}]
                /\ StepOver(w, v)
                /\ UNCHANGED <<command, sale, receipt, history, crashes>>
        BY <3>2 DEF ApplyLine
      <4>2. v \in Variants /\ Payload[c][v] \in Nat
        BY <3>0, OfflineAssumption DEF NextLine
      <4>3. line' \in [Commands -> [Variants -> LineRows]]
        BY <3>0, <4>1, <4>2, AddType DEF TypeOK
      <4>4. job' \in [Workers -> Jobs]
        BY <4>1, <4>2, ZenonT(60) DEF StepOver, Jobs, TypeOK
      <4>5. effects' \in [Commands -> SUBSET Variants]
        BY <3>0, <4>1, <4>2 DEF TypeOK
      <4>. QED BY <4>1, <4>3, <4>4, <4>5 DEF TypeOK
    <3>3. CASE SkipLine(w)
      <4>1. PICK v \in Variants : StepOver(w, v)
        BY <3>3 DEF SkipLine, NextLine
      <4>2. job' \in [Workers -> Jobs]
        BY <4>1, ZenonT(60) DEF StepOver, Jobs, TypeOK
      <4>. QED BY <3>3, <4>2 DEF SkipLine, TypeOK
    <3>4. CASE LinesDone(w)
      <4>1. job' \in [Workers -> Jobs]
        BY <3>4, GotoType DEF LinesDone, Steps, TypeOK
      <4>. QED BY <3>4, <4>1 DEF LinesDone, TypeOK
    <3>5. CASE ReadLines(w)
      <4>1. Read(c) \in Quantities
        BY <3>0 DEF Read, Quantities, LineRows, TypeOK
      <4>2. job' = [job EXCEPT ![w].at = "price", ![w].read = Read(c)]
        BY <3>5 DEF ReadLines
      <4>3. job' \in [Workers -> Jobs]
        BY <3>0, <4>1, <4>2, ReaderRow DEF TypeOK
      <4>. QED BY <3>5, <4>3 DEF ReadLines, TypeOK
    <3>6. CASE PriceLines(w)
      <4>1. PICK p \in [Variants -> Prices] : Price(w, p)
        BY <3>6 DEF PriceLines
      <4>2. UNCHANGED <<command, effects, receipt, history, crashes>>
        BY <4>1 DEF Price
      <4>. QED BY <4>1, <4>2, PriceType DEF TypeOK
    <3>7. CASE Look(w)
      <4>1. sale[c].version \in Nat
        BY <3>0 DEF SaleRows, TypeOK
      <4>2. job' = [job EXCEPT ![w].at = "commit", ![w].version = sale[c].version]
        BY <3>7 DEF Look
      <4>3. job' \in [Workers -> Jobs]
        BY <3>0, <4>1, <4>2, LookerRow DEF TypeOK
      <4>. QED BY <3>7, <4>3 DEF Look, TypeOK
    <3>8. CASE Commit(w)
      <4>1. job' \in [Workers -> Jobs]
        BY <3>8, GotoType DEF Commit, Steps, TypeOK
      <4>2. UNCHANGED saleVars \/ (CommitDraft(c) /\ UNCHANGED line)
        BY <3>8 DEF Commit, CommitDraft
      <4>3. sale' \in [Commands -> SaleRows] /\ receipt' \in [Commands -> Amounts]
        BY <3>0, <4>2, CommitType DEF TypeOK
      <4>. QED BY <3>8, <4>1, <4>2, <4>3 DEF Commit, TypeOK
    <3>9. CASE CommitUnanswered(w)
      <4>1. job' \in [Workers -> Jobs]
        BY <3>9, ThrowType DEF CommitUnanswered, TypeOK
      <4>2. crashes' \in 0..MaxCrashes
        BY <3>9, OfflineAssumption DEF CommitUnanswered, TypeOK
      <4>3. sale' \in [Commands -> SaleRows] /\ receipt' \in [Commands -> Amounts]
        BY <3>0, <3>9, CommitType DEF CommitUnanswered, TypeOK
      <4>4. UNCHANGED line
        BY <3>9 DEF CommitUnanswered, CommitDraft
      <4>. QED BY <3>9, <4>1, <4>2, <4>3, <4>4 DEF CommitUnanswered, TypeOK
    <3>10. CASE MarkApplied(w)
      <4>1. job' \in [Workers -> Jobs]
        BY <3>10, ThrowType DEF MarkApplied, TypeOK
      <4>2. command' \in [Commands -> CommandRows]
        BY <3>0, <3>10, CommandType DEF MarkApplied, TypeOK
      <4>. QED BY <3>10, <4>1, <4>2 DEF MarkApplied, TypeOK
    <3>11. CASE Refused(w)
      <4>1. job' \in [Workers -> Jobs]
        BY <3>11, ThrowType DEF Refused, TypeOK
      <4>. QED BY <3>11, <4>1 DEF Refused, TypeOK
    <3>12. CASE MarkFailed(w)
      <4>1. job' \in [Workers -> Jobs]
        BY <3>12, ThrowType DEF MarkFailed, TypeOK
      <4>2. command' \in [Commands -> CommandRows]
        BY <3>0, <3>12, CommandType DEF MarkFailed, TypeOK
      <4>. QED BY <3>12, <4>1, <4>2 DEF MarkFailed, TypeOK
    <3>13. CASE Crash(w)
      <4>1. job' \in [Workers -> Jobs]
        BY <3>13, ThrowType DEF Crash, TypeOK
      <4>2. crashes' \in 0..MaxCrashes
        BY <3>13, OfflineAssumption DEF Crash, TypeOK
      <4>. QED BY <3>13, <4>1, <4>2 DEF Crash, TypeOK
    <3>. QED BY <2>1, <3>1, <3>2, <3>3, <3>4, <3>5, <3>6, <3>7, <3>8, <3>9, <3>10, <3>11, <3>12,
                <3>13 DEF JobStep
  <2>2. ASSUME NEW w \in Workers, NEW c \in Commands, SyncStart(w, c) \/ DeskPrice(w, c)
        PROVE  TypeOK'
    <3>1. PICK s \in {"create", "read"}, k \in {"sync", "desk"} :
             job' = [job EXCEPT ![w] = [Idle EXCEPT !.at = s, !.kind = k, !.of = c]]
      BY <2>2 DEF SyncStart, DeskPrice
    <3>2. [Idle EXCEPT !.at = s, !.kind = k, !.of = c] \in Jobs
      BY IdleType DEF Jobs, Steps
    <3>3. job' \in [Workers -> Jobs]
      BY <3>1, <3>2 DEF TypeOK
    <3>. QED BY <2>2, <3>3 DEF SyncStart, DeskPrice, TypeOK, saleVars, history
  <2>3. ASSUME NEW c \in Commands, Capture(c) \/ Reopen(c) \/ Abandon(c) PROVE TypeOK'
    <3>1. CASE Capture(c) \/ Abandon(c)
      <4>1. command' \in [Commands -> CommandRows]
        BY <3>1, CommandType DEF Capture, Abandon, TypeOK
      <4>. QED BY <3>1, <4>1 DEF Capture, Abandon, TypeOK, saleVars, history
    <3>2. CASE Reopen(c)
      <4>1. command[c].recoveries \in 0..MaxRecoveries
        BY DEF TypeOK, CommandRows
      <4>2. [status |-> "queued", recoveries |-> command[c].recoveries + 1] \in CommandRows
        BY <3>2, <4>1, OfflineAssumption DEF Reopen, CommandRows
      <4>3. command' \in [Commands -> CommandRows]
        BY <3>2, <4>2 DEF Reopen, TypeOK
      <4>. QED BY <3>2, <4>3 DEF Reopen, TypeOK, saleVars, history
    <3>. QED BY <2>3, <3>1, <3>2
  <2>4. ASSUME NEW c \in Commands, DeskCreate(c) PROVE TypeOK'
    <3>1. sale' \in [Commands -> SaleRows]
      BY <2>4, InsertType DEF DeskCreate, TypeOK
    <3>. QED BY <2>4, <3>1 DEF DeskCreate, TypeOK, history
  <2>5. ASSUME NEW c \in Commands, DeskCommit(c) PROVE TypeOK'
    <3>1. sale' \in [Commands -> SaleRows] /\ receipt' \in [Commands -> Amounts]
      BY <2>5, CommitType DEF DeskCommit, TypeOK
    <3>2. UNCHANGED line
      BY <2>5 DEF DeskCommit, CommitDraft
    <3>. QED BY <2>5, <3>1, <3>2 DEF DeskCommit, TypeOK
  <2>6. ASSUME NEW c \in Commands, NEW v \in Variants, DeskAddLine(c, v) PROVE TypeOK'
    <3>1. line' \in [Commands -> [Variants -> LineRows]]
      BY <2>6, AddType DEF DeskAddLine, TypeOK
    <3>2. typed' \in [Commands -> [Variants -> Nat]]
      BY <2>6 DEF DeskAddLine, TypeOK
    <3>. QED BY <2>6, <3>1, <3>2 DEF DeskAddLine, TypeOK
  <2>7. CASE UNCHANGED vars
    BY <2>7 DEF vars, TypeOK
  <2>. QED BY <2>1, <2>2, <2>3, <2>4, <2>5, <2>6, <2>7 DEF Next
<1>. QED BY <1>1, <1>2, PTL DEF Spec
-----------------------------------------------------------------------------
(* The inductive invariant: what holds of the sale of a command, and what a request at *)
(* work may rely on.                                                                    *)

PayloadDone(c) == \A v \in Variants : Payload[c][v] > 0 => v \in effects[c]

SaleInv(c) ==
    /\ sale[c].status = "none" => line[c] = Nothing /\ sale[c].total = Nothing
    /\ \A v \in Variants : line[c][v].quantity = 0 => line[c][v] = NoLine
    /\ AllPriced(c) => sale[c].total = line[c]
    /\ sale[c].status = "committed" => AllPriced(c) /\ receipt[c] = sale[c].total
    /\ sale[c].status # "committed" => receipt[c] = Nothing
    /\ sale[c].status = "committed" => c \in counter \/ PayloadDone(c)
    /\ command[c].status = "applied" => sale[c].status = "committed"

JobInv(w) ==
    /\ job[w].done \subseteq effects[job[w].of]
    /\ job[w].at \in {"create", "line", "look", "commit", "mark"} => job[w].kind = "sync"
    /\ job[w].at \in {"read", "price", "look", "commit"} /\ job[w].kind = "sync" =>
          PayloadDone(job[w].of)
    /\ job[w].at = "mark" => sale[job[w].of].status = "committed"

Inv ==
    /\ TypeOK
    /\ LinesOnce
    /\ \A c \in Commands : SaleInv(c)
    /\ \A w \in Workers : JobInv(w)

\* What no step takes back.
Grows ==
    /\ counter \subseteq counter'
    /\ \A c \in Commands : /\ effects[c] \subseteq effects'[c]
                           /\ sale[c].status = "committed" => sale'[c].status = "committed"

\* The requests that a step does not touch may still rely on the same.
LEMMA OtherJobs ==
    ASSUME Inv, Grows, NEW w \in Workers, JobInv(w)',
           \A x \in Workers \ {w} : job'[x] = job[x]
    PROVE  \A x \in Workers : JobInv(x)'
<1>. SUFFICES ASSUME NEW x \in Workers, x # w PROVE JobInv(x)'
  OBVIOUS
<1>1. job'[x] = job[x] /\ JobInv(x) /\ job[x].of \in Commands
  BY DEF Inv, TypeOK, Jobs
<1>. QED BY <1>1 DEF JobInv, Grows, PayloadDone

\* A step that touches no request.
LEMMA SameJobs ==
    ASSUME Inv, Grows, UNCHANGED job
    PROVE  \A x \in Workers : JobInv(x)'
<1>. SUFFICES ASSUME NEW x \in Workers PROVE JobInv(x)'
  OBVIOUS
<1>1. JobInv(x) /\ job[x].of \in Commands
  BY DEF Inv, TypeOK, Jobs
<1>. QED BY <1>1 DEF JobInv, Grows, PayloadDone

\* A request that ends or fails relies on nothing.
LEMMA ThrowKeeps ==
    ASSUME Inv, Grows, NEW w \in Workers, Throw(w) \/ Finish(w)
    PROVE  \A x \in Workers : JobInv(x)'
<1>0. /\ job \in [Workers -> Jobs] /\ JobInv(w) /\ job[w].of \in Commands
  BY DEF Inv, TypeOK, Jobs
<1>1. CASE Finish(w)
  <2>1. job'[w] = Idle /\ \A x \in Workers \ {w} : job'[x] = job[x]
    BY <1>0, <1>1 DEF Finish
  <2>2. Idle.of \in Commands /\ Idle.done = {} /\ Idle.at = "idle"
    BY IdleType DEF Idle, Jobs
  <2>3. JobInv(w)'
    BY <2>1, <2>2 DEF JobInv
  <2>. QED BY <2>1, <2>3, OtherJobs
<1>2. CASE Goto(w, "fail")
  <2>1. \A x \in Workers \ {w} : job'[x] = job[x]
    BY <1>0, <1>2 DEF Goto
  <2>2. job'[w].at = "fail" /\ job'[w].of = job[w].of /\ job'[w].done = job[w].done
    BY <1>0, <1>2 DEF Goto, Jobs
  <2>3. JobInv(w)'
    BY <1>0, <2>2 DEF JobInv, Grows
  <2>. QED BY <2>1, <2>3, OtherJobs
<1>. QED BY <1>1, <1>2 DEF Throw

\* A step that leaves the sales alone and tells no till "applied" of an open one.
LEMMA QuietSales ==
    ASSUME Inv, UNCHANGED <<effects, saleVars, typed, counter>>,
           \A c \in Commands : command'[c].status = "applied" => sale[c].status = "committed"
    PROVE  Grows /\ LinesOnce' /\ \A c \in Commands : SaleInv(c)'
<1>1. Grows
  BY DEF Grows, saleVars
<1>2. LinesOnce'
  BY DEF Inv, LinesOnce, saleVars
<1>3. ASSUME NEW c \in Commands PROVE SaleInv(c)'
  BY DEF Inv, SaleInv, AllPriced, Lines, PayloadDone, saleVars
<1>. QED BY <1>1, <1>2, <1>3

\* An addition voids the price of its line, so the sale is not priced.
LEMMA AddKeeps ==
    ASSUME Inv, NEW c \in Commands, NEW v \in Variants, NEW q \in Nat, q > 0, AddTo(c, v, q),
           UNCHANGED <<command, sale, receipt, counter>>,
           \A d \in Commands : effects[d] \subseteq effects'[d]
    PROVE  Grows /\ \A d \in Commands : SaleInv(d)'
<1>0. /\ line \in [Commands -> [Variants -> LineRows]]
      /\ sale[c].status = "draft" /\ line[c][v].quantity \in Nat
  BY OfflineAssumption DEF AddTo, Inv, TypeOK, LineRows
<1>1. Grows
  BY DEF Grows
<1>2. ASSUME NEW d \in Commands, d # c PROVE SaleInv(d)'
  <2>1. line'[d] = line[d] /\ SaleInv(d)
    BY <1>0, <1>2 DEF AddTo, Inv
  <2>. QED BY <2>1 DEF SaleInv, AllPriced, Lines, PayloadDone
<1>3. SaleInv(c)'
  <2>1. line'[c] = [line[c] EXCEPT ![v] = [quantity |-> line[c][v].quantity + q, price |-> 0]]
    BY <1>0 DEF AddTo
  <2>2. line[c] \in [Variants -> LineRows]
    BY <1>0
  <2>3. line'[c][v] = [quantity |-> line[c][v].quantity + q, price |-> 0]
    BY <2>1, <2>2
  <2>4. \A u \in Variants \ {v} : line'[c][u] = line[c][u]
    BY <2>1, <2>2
  <2>5. line'[c][v].quantity > 0 /\ line'[c][v].price = 0
    BY <1>0, <2>3
  <2>6. ~AllPriced(c)'
    BY <2>5 DEF AllPriced, Lines
  <2>7. \A u \in Variants : line'[c][u].quantity = 0 => line'[c][u] = NoLine
    BY <2>4, <2>5 DEF Inv, SaleInv
  <2>8. SaleInv(c)
    BY DEF Inv
  <2>. QED BY <1>0, <2>6, <2>7, <2>8 DEF SaleInv
<1>. QED BY <1>1, <1>2, <1>3

\* A new sale has no lines and no total.
LEMMA InsertKeeps ==
    ASSUME Inv, NEW c \in Commands, sale[c].status = "none", InsertSale(c),
           UNCHANGED <<command, effects, line, receipt, typed, counter>>
    PROVE  Grows /\ LinesOnce' /\ \A d \in Commands : SaleInv(d)'
<1>0. sale \in [Commands -> SaleRows]
  BY DEF Inv, TypeOK
<1>1. sale'[c].status = "draft" /\ sale'[c].total = Nothing
  BY <1>0 DEF InsertSale
<1>2. \A d \in Commands \ {c} : sale'[d] = sale[d]
  BY <1>0 DEF InsertSale
<1>3. Grows
  BY <1>1, <1>2 DEF Grows
<1>4. LinesOnce'
  BY DEF Inv, LinesOnce
<1>5. ASSUME NEW d \in Commands PROVE SaleInv(d)'
  <2>1. SaleInv(d)
    BY DEF Inv
  <2>2. CASE d # c
    BY <1>2, <2>1, <2>2 DEF SaleInv, AllPriced, Lines, PayloadDone
  <2>3. CASE d = c
    BY <1>1, <2>1, <2>3 DEF SaleInv, AllPriced, Lines
  <2>. QED BY <2>2, <2>3
<1>. QED BY <1>3, <1>4, <1>5

\* What is committed is priced, and paid.
LEMMA CommitKeeps ==
    ASSUME Inv, NEW c \in Commands, NEW n, Committable(c, n), CommitDraft(c),
           c \in counter' \/ PayloadDone(c), counter \subseteq counter',
           UNCHANGED <<command, effects, typed>>
    PROVE  Grows /\ LinesOnce' /\ \A d \in Commands : SaleInv(d)'
<1>0. sale \in [Commands -> SaleRows] /\ receipt \in [Commands -> Amounts]
  BY DEF Inv, TypeOK
<1>1. /\ sale'[c].status = "committed" /\ sale'[c].total = sale[c].total
      /\ receipt'[c] = sale[c].total /\ UNCHANGED line
  BY <1>0 DEF CommitDraft, SaleRows
<1>2. \A d \in Commands \ {c} : sale'[d] = sale[d] /\ receipt'[d] = receipt[d]
  BY <1>0 DEF CommitDraft
<1>3. Grows
  BY <1>1, <1>2 DEF Grows
<1>4. LinesOnce'
  BY <1>1 DEF Inv, LinesOnce
<1>5. ASSUME NEW d \in Commands PROVE SaleInv(d)'
  <2>1. SaleInv(d)
    BY DEF Inv
  <2>2. CASE d # c
    BY <1>1, <1>2, <2>1, <2>2 DEF SaleInv, AllPriced, Lines, PayloadDone
  <2>3. CASE d = c
    <3>1. AllPriced(c)
      BY DEF Committable
    <3>. QED BY <1>1, <2>1, <2>3, <3>1 DEF SaleInv, AllPriced, Lines, PayloadDone
  <2>. QED BY <2>2, <2>3
<1>. QED BY <1>3, <1>4, <1>5

\* A pricing of the lines that are there writes the total they add up to.
LEMMA PriceKeeps ==
    ASSUME Inv, NEW w \in Workers, NEW p \in [Variants -> Prices], Price(w, p),
           sale[job[w].of].status = "draft", job[w].read = Read(job[w].of),
           UNCHANGED history
    PROVE  Grows /\ LinesOnce' /\ \A d \in Commands : SaleInv(d)'
<1>. DEFINE c == job[w].of
            quoted == [v \in Variants |-> IF job[w].read[v] = 0 THEN NoLine
                          ELSE [quantity |-> job[w].read[v], price |-> p[v]]]
            priced == [v \in Variants |-> [quantity |-> line[c][v].quantity,
                         price |-> IF job[w].read[v] = 0 THEN line[c][v].price ELSE p[v]]]
<1>0. /\ c \in Commands /\ SaleInv(c)
      /\ line \in [Commands -> [Variants -> LineRows]] /\ sale \in [Commands -> SaleRows]
  BY DEF Inv, TypeOK, Jobs
<1>1. line' = [line EXCEPT ![c] = priced]
  BY <1>0 DEF Price
<1>2. sale' = [sale EXCEPT ![c].version = @ + 1, ![c].total = quoted]
  BY DEF Price
<1>3. ASSUME NEW v \in Variants
      PROVE  /\ quoted[v] = priced[v]
             /\ priced[v].quantity = line[c][v].quantity
             /\ priced[v].quantity = 0 => priced[v] = NoLine
  <2>1. job[w].read[v] = line[c][v].quantity
    BY DEF Read
  <2>2. line[c][v].quantity = 0 => line[c][v].price = 0
    BY <1>0 DEF SaleInv, NoLine
  <2>. QED BY <2>1, <2>2 DEF NoLine
<1>4. quoted = priced
  BY <1>3
<1>. HIDE DEF quoted, priced
<1>5. line'[c] = priced /\ sale'[c].total = priced /\ sale'[c].status = "draft"
  BY <1>0, <1>1, <1>2, <1>4 DEF SaleRows
<1>6. \A d \in Commands \ {c} : line'[d] = line[d] /\ sale'[d] = sale[d]
  BY <1>0, <1>1, <1>2
<1>. HIDE DEF c
<1>7. UNCHANGED <<command, effects, receipt, typed, counter>>
  BY DEF Price, history
<1>8. Grows
  BY <1>5, <1>6, <1>7 DEF Grows, c
<1>9. LinesOnce'
  <2>1. \A d \in Commands, v \in Variants : line'[d][v].quantity = line[d][v].quantity
    BY <1>3, <1>5, <1>6
  <2>. QED BY <1>7, <2>1 DEF LinesOnce, Inv
<1>10. ASSUME NEW d \in Commands PROVE SaleInv(d)'
  <2>1. SaleInv(d)
    BY DEF Inv
  <2>2. CASE d # c
    BY <1>6, <1>7, <2>1, <2>2 DEF SaleInv, AllPriced, Lines, PayloadDone
  <2>3. CASE d = c
    <3>1. sale[c].status = "draft"
      BY DEF c
    <3>. QED BY <1>3, <1>5, <1>7, <2>1, <2>3, <3>1 DEF SaleInv
  <2>. QED BY <2>2, <2>3
<1>. QED BY <1>8, <1>9, <1>10
-----------------------------------------------------------------------------
\* The inductive step, for a request at work.
LEMMA JobStepKeeps ==
    ASSUME Inv, NEW w \in Workers, JobStep(w)
    PROVE  LinesOnce' /\ (\A d \in Commands : SaleInv(d)') /\ \A x \in Workers : JobInv(x)'
<1>. DEFINE c == job[w].of
            Sales == Grows /\ LinesOnce' /\ \A d \in Commands : SaleInv(d)'
<1>0. /\ job \in [Workers -> Jobs] /\ job[w] \in Jobs /\ c \in Commands
      /\ SaleInv(c) /\ JobInv(w)
  BY DEF Inv, TypeOK, Jobs
<1>00. \A d \in Commands : command[d].status = "applied" => sale[d].status = "committed"
  BY DEF Inv, SaleInv
<1>q. ASSUME NEW s \in Steps, Goto(w, s), UNCHANGED <<command, effects, saleVars, history>>
      PROVE  Sales /\ job'[w].at = s /\ job'[w].of = c /\ job'[w].done = job[w].done
             /\ job'[w].kind = job[w].kind /\ \A x \in Workers \ {w} : job'[x] = job[x]
  <2>1. Sales
    BY <1>00, <1>q, QuietSales DEF history
  <2>. QED BY <1>0, <1>q, <2>1 DEF Goto, Jobs
<1>1. CASE CreateDraft(w)
  <2>1. Sales
    <3>1. CASE sale[c].status = "none" /\ InsertSale(c)
      BY <1>0, <1>1, <3>1, InsertKeeps DEF CreateDraft, history
    <3>2. CASE UNCHANGED sale
      BY <1>00, <1>1, <3>2, QuietSales DEF CreateDraft, history, saleVars
    <3>. QED BY <1>1, <3>1, <3>2 DEF CreateDraft
  <2>2. job[w].kind = "sync"
    BY <1>0, <1>1 DEF CreateDraft, At, JobInv
  <2>3. job'[w].at = (IF sale[c].status = "committed" THEN "mark" ELSE "line")
    BY <1>0, <1>1 DEF CreateDraft, Goto, Jobs
  <2>4. /\ job'[w].of = c /\ job'[w].done = job[w].done /\ job'[w].kind = "sync"
        /\ \A x \in Workers \ {w} : job'[x] = job[x]
    BY <1>0, <1>1, <2>2 DEF CreateDraft, Goto, Jobs
  <2>5. JobInv(w)'
    BY <1>0, <1>1, <2>1, <2>3, <2>4 DEF JobInv, Grows
  <2>. QED BY <2>1, <2>4, <2>5, OtherJobs
<1>2. CASE ApplyLine(w)
  <2>1. PICK v \in NextLine(w) :
            /\ At(w, "line")
            /\ AddTo(c, v, Payload[c][v])
            /\ v \notin effects[c]
            /\ effects' = [effects EXCEPT ![c] = @ \cup {v}]
            /\ StepOver(w, v)
            /\ UNCHANGED <<command, sale, receipt, history, crashes>>
    BY <1>2 DEF ApplyLine
  <2>2. v \in Variants /\ Payload[c][v] \in Nat /\ Payload[c][v] > 0
    BY <1>0, OfflineAssumption DEF NextLine
  <2>3. effects \in [Commands -> SUBSET Variants] /\ line \in [Commands -> [Variants -> LineRows]]
    BY DEF Inv, TypeOK
  <2>4. effects'[c] = effects[c] \cup {v} /\ \A d \in Commands \ {c} : effects'[d] = effects[d]
    BY <1>0, <2>1, <2>3
  <2>5. Grows /\ \A d \in Commands : SaleInv(d)'
    BY <1>0, <2>1, <2>2, <2>4, AddKeeps DEF history
  <2>6. LinesOnce'
    <3>1. /\ line'[c][v].quantity = line[c][v].quantity + Payload[c][v]
          /\ \A u \in Variants \ {v} : line'[c][u] = line[c][u]
          /\ \A d \in Commands \ {c} : line'[d] = line[d]
      BY <1>0, <2>1, <2>2, <2>3 DEF AddTo
    <3>2. line[c][v].quantity = typed[c][v] /\ typed' = typed /\ typed[c][v] \in Nat
      BY <1>0, <2>1, <2>2 DEF Inv, LinesOnce, TypeOK, history
    <3>. QED BY <2>2, <2>4, <3>1, <3>2 DEF Inv, LinesOnce
  <2>7. /\ job'[w].at = "line" /\ job'[w].kind = job[w].kind /\ job'[w].of = c
        /\ job'[w].done = job[w].done \cup {v}
        /\ \A x \in Workers \ {w} : job'[x] = job[x]
    BY <1>0, <2>1 DEF StepOver, At, Jobs
  <2>8. JobInv(w)'
    BY <1>0, <2>1, <2>4, <2>7 DEF JobInv, At
  <2>. QED BY <2>5, <2>6, <2>7, <2>8, OtherJobs
<1>3. CASE SkipLine(w)
  <2>1. PICK v \in NextLine(w) : At(w, "line") /\ v \in effects[c] /\ StepOver(w, v)
    BY <1>3 DEF SkipLine
  <2>2. Sales
    BY <1>00, <1>3, QuietSales DEF SkipLine, history
  <2>3. /\ job'[w].at = "line" /\ job'[w].kind = job[w].kind /\ job'[w].of = c
        /\ job'[w].done = job[w].done \cup {v}
        /\ \A x \in Workers \ {w} : job'[x] = job[x]
    BY <1>0, <2>1 DEF StepOver, At, Jobs
  <2>4. JobInv(w)'
    BY <1>0, <2>1, <2>2, <2>3 DEF JobInv, At, Grows
  <2>. QED BY <2>2, <2>3, <2>4, OtherJobs
<1>4. CASE LinesDone(w)
  <2>1. /\ Sales /\ job'[w].at = "read" /\ job'[w].of = c /\ job'[w].done = job[w].done
        /\ job'[w].kind = job[w].kind /\ \A x \in Workers \ {w} : job'[x] = job[x]
    BY <1>4, <1>q DEF LinesDone, Steps
  <2>2. PayloadDone(c) /\ effects' = effects
    BY <1>0, <1>4 DEF LinesDone, JobInv, PayloadDone
  <2>3. JobInv(w)'
    BY <1>0, <2>1, <2>2 DEF JobInv, PayloadDone
  <2>. QED BY <2>1, <2>3, OtherJobs
<1>5. CASE ReadLines(w)
  <2>1. Sales
    BY <1>00, <1>5, QuietSales DEF ReadLines, history
  <2>2. /\ job'[w].at = "price" /\ job'[w].of = c /\ job'[w].done = job[w].done
        /\ job'[w].kind = job[w].kind /\ \A x \in Workers \ {w} : job'[x] = job[x]
    BY <1>0, <1>5 DEF ReadLines, Jobs
  <2>3. JobInv(w)'
    BY <1>0, <1>5, <2>1, <2>2 DEF JobInv, ReadLines, At, PayloadDone
  <2>. QED BY <2>1, <2>2, <2>3, OtherJobs
<1>6. CASE PriceLines(w)
  <2>1. PICK p \in [Variants -> Prices] : /\ At(w, "price") /\ sale[c].status = "draft"
                                          /\ job[w].read = Read(c) /\ Price(w, p)
    BY <1>6 DEF PriceLines
  <2>2. Sales
    BY <2>1, PriceKeeps DEF Price
  <2>3. CASE job[w].kind = "sync"
    <3>1. /\ job'[w].at = "look" /\ job'[w].of = c /\ job'[w].done = job[w].done
          /\ job'[w].kind = "sync" /\ \A x \in Workers \ {w} : job'[x] = job[x]
      BY <1>0, <2>1, <2>3 DEF Price, Goto, Jobs
    <3>2. JobInv(w)'
      BY <1>0, <2>1, <2>2, <2>3, <3>1 DEF JobInv, At, PayloadDone, Grows
    <3>. QED BY <2>2, <3>1, <3>2, OtherJobs
  <2>4. CASE job[w].kind # "sync"
    BY <2>1, <2>2, <2>4, ThrowKeeps DEF Price
  <2>. QED BY <2>3, <2>4
<1>7. CASE Look(w)
  <2>1. Sales
    BY <1>00, <1>7, QuietSales DEF Look, history
  <2>2. /\ job'[w].at = "commit" /\ job'[w].of = c /\ job'[w].done = job[w].done
        /\ job'[w].kind = job[w].kind /\ \A x \in Workers \ {w} : job'[x] = job[x]
    BY <1>0, <1>7 DEF Look, Jobs
  <2>3. JobInv(w)'
    BY <1>0, <1>7, <2>1, <2>2 DEF JobInv, Look, At, PayloadDone
  <2>. QED BY <2>1, <2>2, <2>3, OtherJobs
<1>8. CASE Commit(w)
  <2>1. PayloadDone(c) /\ job[w].kind = "sync"
    BY <1>0, <1>8 DEF Commit, At, JobInv
  <2>2. Sales /\ sale'[c].status = "committed"
    <3>1. CASE sale[c].status = "committed" /\ UNCHANGED saleVars
      BY <1>00, <1>8, <3>1, QuietSales DEF Commit, history, saleVars
    <3>2. CASE Committable(c, job[w].version) /\ CommitDraft(c)
      <4>1. Sales
        BY <1>0, <1>8, <2>1, <3>2, CommitKeeps DEF Commit, history
      <4>2. sale'[c].status = "committed"
        BY <1>0, <3>2 DEF CommitDraft, Inv, TypeOK, SaleRows
      <4>. QED BY <4>1, <4>2
    <3>. QED BY <1>8, <3>1, <3>2 DEF Commit
  <2>3. /\ job'[w].at = "mark" /\ job'[w].of = c /\ job'[w].done = job[w].done
        /\ job'[w].kind = job[w].kind /\ \A x \in Workers \ {w} : job'[x] = job[x]
    BY <1>0, <1>8 DEF Commit, Goto, Jobs
  <2>4. JobInv(w)'
    BY <1>0, <2>1, <2>2, <2>3 DEF JobInv, Grows
  <2>. QED BY <2>2, <2>3, <2>4, OtherJobs
<1>9. CASE CommitUnanswered(w)
  <2>1. PayloadDone(c)
    BY <1>0, <1>9 DEF CommitUnanswered, At, JobInv
  <2>2. Sales
    BY <1>0, <1>9, <2>1, CommitKeeps DEF CommitUnanswered, history
  <2>. QED BY <1>9, <2>2, ThrowKeeps DEF CommitUnanswered
<1>10. CASE MarkApplied(w)
  <2>1. sale[c].status = "committed"
    BY <1>0, <1>10 DEF MarkApplied, At, JobInv
  <2>2. \A d \in Commands : command'[d].status = "applied" => sale[d].status = "committed"
    <3>1. \A d \in Commands \ {c} : command'[d] = command[d]
      BY <1>0, <1>10 DEF MarkApplied, SetCommand, Inv, TypeOK
    <3>. QED BY <1>00, <2>1, <3>1
  <2>3. Sales
    BY <1>10, <2>2, QuietSales DEF MarkApplied, history
  <2>. QED BY <1>10, <2>3, ThrowKeeps DEF MarkApplied
<1>11. CASE Refused(w) \/ Crash(w)
  <2>1. Sales
    BY <1>00, <1>11, QuietSales DEF Refused, Crash, history
  <2>. QED BY <1>11, <2>1, ThrowKeeps DEF Refused, Crash
<1>12. CASE MarkFailed(w)
  <2>1. \A d \in Commands : command'[d].status = "applied" => sale[d].status = "committed"
    <3>1. command \in [Commands -> CommandRows]
      BY DEF Inv, TypeOK
    <3>2. UNCHANGED command \/ SetCommand(c, "failed")
      BY <1>12 DEF MarkFailed
    <3>3. \A d \in Commands : command'[d].status = "applied" => command[d].status = "applied"
      BY <1>0, <3>1, <3>2 DEF SetCommand, CommandRows
    <3>. QED BY <1>00, <3>3
  <2>2. Sales
    BY <1>12, <2>1, QuietSales DEF MarkFailed, history
  <2>. QED BY <1>12, <2>2, ThrowKeeps DEF MarkFailed
<1>. QED BY <1>1, <1>2, <1>3, <1>4, <1>5, <1>6, <1>7, <1>8, <1>9, <1>10, <1>11, <1>12 DEF JobStep

(* The invariant holds in every reachable state. *)
THEOREM SaleInvariant == Spec => []Inv
<1>1. Init => Inv
  <2>. SUFFICES ASSUME Init PROVE Inv
    OBVIOUS
  <2>1. TypeOK
    BY InitType
  <2>2. LinesOnce
    BY OfflineAssumption DEF Init, LinesOnce, Nothing, NoLine
  <2>3. ASSUME NEW c \in Commands PROVE SaleInv(c)
    BY DEF Init, SaleInv, Nothing, NoLine
  <2>4. ASSUME NEW w \in Workers PROVE JobInv(w)
    <3>1. job[w] = Idle /\ Idle.at = "idle" /\ Idle.done = {}
      BY DEF Init, Idle
    <3>. QED BY <3>1 DEF JobInv
  <2>. QED BY <2>1, <2>2, <2>3, <2>4 DEF Inv
<1>2. Inv /\ TypeOK' /\ [Next]_vars => Inv'
  <2>. SUFFICES ASSUME Inv, [Next]_vars
                PROVE  LinesOnce' /\ (\A d \in Commands : SaleInv(d)') /\ \A x \in Workers : JobInv(x)'
    BY DEF Inv
  <2>. DEFINE Goal == LinesOnce' /\ (\A d \in Commands : SaleInv(d)') /\ \A x \in Workers : JobInv(x)'
  <2>0. /\ command \in [Commands -> CommandRows] /\ job \in [Workers -> Jobs]
        /\ \A d \in Commands : command[d].status = "applied" => sale[d].status = "committed"
    BY DEF Inv, TypeOK, SaleInv
  <2>1. ASSUME NEW w \in Workers, JobStep(w) PROVE Goal
    BY <2>1, JobStepKeeps
  <2>2. ASSUME NEW w \in Workers, NEW c \in Commands, SyncStart(w, c) \/ DeskPrice(w, c) PROVE Goal
    <3>1. Grows /\ LinesOnce' /\ \A d \in Commands : SaleInv(d)'
      BY <2>0, <2>2, QuietSales DEF SyncStart, DeskPrice, history
    <3>2. PICK s \in {"create", "read"}, k \in {"sync", "desk"} :
             /\ s = "create" <=> k = "sync"
             /\ job' = [job EXCEPT ![w] = [Idle EXCEPT !.at = s, !.kind = k, !.of = c]]
      BY <2>2 DEF SyncStart, DeskPrice
    <3>3. /\ job'[w].at = s /\ job'[w].kind = k /\ job'[w].of = c /\ job'[w].done = {}
          /\ \A x \in Workers \ {w} : job'[x] = job[x]
      BY <2>0, <3>2 DEF Idle
    <3>4. JobInv(w)'
      BY <3>2, <3>3 DEF JobInv
    <3>. QED BY <3>1, <3>3, <3>4, OtherJobs
  <2>3. ASSUME NEW c \in Commands, Capture(c) \/ Reopen(c) \/ Abandon(c) PROVE Goal
    <3>1. \A d \in Commands : command'[d].status = "applied" => sale[d].status = "committed"
      BY <2>0, <2>3 DEF Capture, Reopen, Abandon, SetCommand, CommandRows
    <3>2. Grows /\ LinesOnce' /\ (\A d \in Commands : SaleInv(d)') /\ UNCHANGED job
      BY <2>3, <3>1, QuietSales DEF Capture, Reopen, Abandon, history
    <3>. QED BY <3>2, SameJobs
  <2>4. ASSUME NEW c \in Commands, DeskCreate(c) PROVE Goal
    BY <2>4, InsertKeeps, SameJobs DEF DeskCreate, history
  <2>5. ASSUME NEW c \in Commands, DeskCommit(c) PROVE Goal
    <3>1. c \in counter' /\ counter \subseteq counter'
      BY <2>5 DEF DeskCommit
    <3>2. Grows /\ LinesOnce' /\ \A d \in Commands : SaleInv(d)'
      BY <2>5, <3>1, CommitKeeps DEF DeskCommit
    <3>. QED BY <2>5, <3>2, SameJobs DEF DeskCommit
  <2>6. ASSUME NEW c \in Commands, NEW v \in Variants, DeskAddLine(c, v) PROVE Goal
    <3>1. Grows /\ \A d \in Commands : SaleInv(d)'
      BY <2>6, AddKeeps DEF DeskAddLine
    <3>2. LinesOnce'
      <4>1. /\ line \in [Commands -> [Variants -> LineRows]]
            /\ typed \in [Commands -> [Variants -> Nat]]
        BY DEF Inv, TypeOK
      <4>2. /\ line'[c][v].quantity = line[c][v].quantity + 1
            /\ \A u \in Variants \ {v} : line'[c][u] = line[c][u]
            /\ \A d \in Commands \ {c} : line'[d] = line[d]
        BY <2>6, <4>1 DEF DeskAddLine, AddTo
      <4>3. /\ typed'[c][v] = typed[c][v] + 1
            /\ \A u \in Variants \ {v} : typed'[c][u] = typed[c][u]
            /\ \A d \in Commands \ {c} : typed'[d] = typed[d]
        BY <2>6, <4>1 DEF DeskAddLine
      <4>4. /\ typed[c][v] \in Nat /\ Payload[c][v] \in Nat /\ effects' = effects
            /\ line[c][v].quantity = typed[c][v] + IF v \in effects[c] THEN Payload[c][v] ELSE 0
        BY <2>6, <4>1, OfflineAssumption DEF DeskAddLine, Inv, LinesOnce
      <4>5. line'[c][v].quantity = typed'[c][v] + IF v \in effects'[c] THEN Payload[c][v] ELSE 0
        BY <4>2, <4>3, <4>4
      <4>6. ASSUME NEW d \in Commands, NEW u \in Variants, d # c \/ u # v
            PROVE  line'[d][u].quantity = typed'[d][u] + IF u \in effects'[d] THEN Payload[d][u] ELSE 0
        BY <4>2, <4>3, <4>4, <4>6 DEF Inv, LinesOnce
      <4>. QED BY <4>5, <4>6 DEF LinesOnce
    <3>. QED BY <2>6, <3>1, <3>2, SameJobs DEF DeskAddLine
  <2>7. CASE UNCHANGED vars
    <3>1. Grows /\ LinesOnce' /\ \A d \in Commands : SaleInv(d)'
      BY <2>0, <2>7, QuietSales DEF vars, saleVars
    <3>. QED BY <2>7, <3>1, SameJobs DEF vars
  <2>. QED BY <2>1, <2>2, <2>3, <2>4, <2>5, <2>6, <2>7 DEF Next
<1>. QED BY <1>1, <1>2, TypeCorrect, PTL DEF Spec

(* However often a command is synced, its sale holds every line of it at most once. *)
THEOREM LinesAreOnce == Spec => []LinesOnce
BY SaleInvariant, PTL DEF Inv

(* A committed sale has a receipt over the sum of its priced lines, any other has none. *)
THEOREM CommittedIsPaid == Spec => []PaidIsPriced
<1>1. Inv => PaidIsPriced
  BY DEF Inv, SaleInv, PaidIsPriced
<1>. QED BY <1>1, SaleInvariant, PTL

(* A till that is told "applied" has its sale committed. *)
THEOREM AppliedIsCommitted == Spec => []AppliedIsSold
<1>1. Inv => AppliedIsSold
  BY DEF Inv, SaleInv, AppliedIsSold, PayloadDone
<1>. QED BY <1>1, SaleInvariant, PTL

(* A committed sale and an applied command stay as they are. *)
THEOREM FinalIsFinal == Spec => SoldIsFinal
<1>. DEFINE Final(c) ==
        /\ sale[c].status = "committed" =>
              sale'[c] = sale[c] /\ line'[c] = line[c] /\ receipt'[c] = receipt[c]
        /\ command[c].status = "applied" => command'[c] = command[c]
<1>1. ASSUME TypeOK, [Next]_vars, NEW d \in Commands PROVE Final(d)
  <2>0. /\ command \in [Commands -> CommandRows] /\ sale \in [Commands -> SaleRows]
        /\ line \in [Commands -> [Variants -> LineRows]] /\ receipt \in [Commands -> Amounts]
        /\ \A w \in Workers : job[w].of \in Commands
    BY <1>1 DEF TypeOK, Jobs
  <2>1. ASSUME NEW w \in Workers, JobStep(w) PROVE Final(d)
    <3>1. CASE CreateDraft(w)
      BY <2>0, <3>1 DEF CreateDraft, InsertSale
    <3>2. CASE ApplyLine(w)
      BY <2>0, <3>2 DEF ApplyLine, AddTo
    <3>3. CASE PriceLines(w)
      <4>1. /\ \A c \in Commands : c # job[w].of => sale'[c] = sale[c] /\ line'[c] = line[c]
            /\ sale[job[w].of].status = "draft" /\ UNCHANGED <<command, receipt>>
        BY <2>0, <3>3 DEF PriceLines, Price
      <4>. QED BY <4>1
    <3>4. CASE Commit(w) \/ CommitUnanswered(w)
      BY <2>0, <3>4 DEF Commit, CommitUnanswered, Committable, CommitDraft, saleVars
    <3>5. CASE MarkApplied(w) \/ MarkFailed(w)
      <4>1. UNCHANGED saleVars
        BY <3>5 DEF MarkApplied, MarkFailed
      <4>2. \/ UNCHANGED command
            \/ \E s \in {"applied", "failed"} :
                  /\ SetCommand(job[w].of, s)
                  /\ command[job[w].of].status = "applied" => s = "applied"
        BY <3>5 DEF MarkApplied, MarkFailed
      <4>3. command[d].status = "applied" => command'[d] = command[d]
        BY <2>0, <4>2, SMTT(30) DEF SetCommand, CommandRows
      <4>. QED BY <4>1, <4>3 DEF saleVars
    <3>6. CASE SkipLine(w) \/ LinesDone(w) \/ ReadLines(w) \/ Look(w) \/ Refused(w) \/ Crash(w)
      BY <3>6 DEF SkipLine, LinesDone, ReadLines, Look, Refused, Crash, saleVars
    <3>. QED BY <2>1, <3>1, <3>2, <3>3, <3>4, <3>5, <3>6 DEF JobStep
  <2>2. ASSUME NEW w \in Workers, NEW c \in Commands, SyncStart(w, c) \/ DeskPrice(w, c)
        PROVE  Final(d)
    BY <2>2 DEF SyncStart, DeskPrice, saleVars
  <2>3. ASSUME NEW c \in Commands, Capture(c) \/ Reopen(c) \/ Abandon(c) PROVE Final(d)
    BY <2>0, <2>3 DEF Capture, Reopen, Abandon, SetCommand, saleVars
  <2>4. ASSUME NEW c \in Commands, DeskCreate(c) \/ DeskCommit(c) PROVE Final(d)
    BY <2>0, <2>4 DEF DeskCreate, InsertSale, DeskCommit, Committable, CommitDraft
  <2>5. ASSUME NEW c \in Commands, NEW v \in Variants, DeskAddLine(c, v) PROVE Final(d)
    BY <2>0, <2>5 DEF DeskAddLine, AddTo
  <2>6. CASE UNCHANGED vars
    BY <2>6 DEF vars
  <2>. QED BY <1>1, <2>1, <2>2, <2>3, <2>4, <2>5, <2>6 DEF Next
<1>2. TypeOK /\ [Next]_vars => [\A c \in Commands : Final(c)]_vars
  BY <1>1
<1>. QED BY <1>2, TypeCorrect, PTL DEF Spec, SoldIsFinal
=============================================================================
