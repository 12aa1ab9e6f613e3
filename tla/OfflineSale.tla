---------------------------- MODULE OfflineSale ----------------------------
(***************************************************************************)
(* Sales of the shop counter that were typed in while it was off line.     *)
(* The till leaves a command (sale.sync) with the lines it sold; when it   *)
(* is back, sync builds the sale of that command, prices it and commits    *)
(* it, in one transaction after another.  A till may ask again while an    *)
(* earlier request still runs, requests fail and processes die, staff      *)
(* reopen or abandon failed commands, and the counter may work on the sale *)
(* of the same id on line.                                                 *)
(*                                                                         *)
(* A job is one request at work.  What it read and still uses is in its    *)
(* record: the quantities it prices and the version it expects.  A line    *)
(* without a price has price 0.  An amount of money is written as the      *)
(* lines it was added up from.  Stock and price lists are not here: a step *)
(* that needs them may be refused at any time.                             *)
(***************************************************************************)
EXTENDS Integers

CONSTANTS
    Commands, Workers,
    Variants,       \* what is sold, in the order of the lines of a payload
    Payload,        \* quantity of every variant in the payload of a command
    Prices,         \* unit prices the price list may answer with
    Desk,           \* the counter works on line, too
    MaxQuantity,    \* of a line; 999 in the code
    MaxRecoveries,  \* of a command; 5 in the code
    MaxVersion,     \* bound: how often a sale is priced
    MaxCrashes      \* bound: processes that die and answers that are lost

ASSUME OfflineAssumption ==
    /\ Commands # {}
    /\ Variants \subseteq Nat
    /\ Payload \in [Commands -> [Variants -> Nat]]
    /\ Prices \subseteq Nat \ {0}
    /\ Desk \in BOOLEAN
    /\ MaxQuantity \in Nat /\ MaxRecoveries \in Nat /\ MaxVersion \in Nat /\ MaxCrashes \in Nat

VARIABLES
    command,    \* pos.offline_commands
    effects,    \* pos.offline_command_line_effects: the lines of a command already applied
    sale,       \* pos.physical_sales, by the client command id they share
    line,       \* pos.physical_sale_lines; quantity 0 is no row
    receipt,    \* payments.physical_sale_receipts: the amount, Nothing is no row
    job,        \* requests at work
    typed,      \* history: quantities added on line
    counter,    \* history: the sales committed on line
    crashes

vars == <<command, effects, sale, line, receipt, job, typed, counter, crashes>>
history == <<typed, counter>>
saleVars == <<sale, line, receipt>>

NoLine == [quantity |-> 0, price |-> 0]
Nothing == [v \in Variants |-> NoLine]
Idle == [at |-> "idle", kind |-> "none", of |-> CHOOSE c \in Commands : TRUE,
         done |-> {}, read |-> [v \in Variants |-> 0], version |-> 0]
Steps == {"idle", "create", "line", "read", "price", "look", "commit", "mark", "fail"}

Quantities == [Variants -> 0..MaxQuantity]
CommandRows == [status : {"none", "queued", "applied", "failed", "abandoned"},
                recoveries : 0..MaxRecoveries]
LineRows == [quantity : 0..MaxQuantity, price : Prices \cup {0}]
Amounts == [Variants -> LineRows]
SaleRows == [status : {"none", "draft", "committed"}, version : Nat, total : Amounts]
Jobs == [at : Steps, kind : {"none", "sync", "desk"}, of : Commands, done : SUBSET Variants,
         read : Quantities, version : Nat]

Init ==
    /\ command = [c \in Commands |-> [status |-> "none", recoveries |-> 0]]
    /\ effects = [c \in Commands |-> {}]
    /\ sale = [c \in Commands |-> [status |-> "none", version |-> 0, total |-> Nothing]]
    /\ line = [c \in Commands |-> Nothing]
    /\ receipt = [c \in Commands |-> Nothing]
    /\ job = [w \in Workers |-> Idle]
    /\ typed = [c \in Commands |-> [v \in Variants |-> 0]]
    /\ counter = {}
    /\ crashes = 0
-----------------------------------------------------------------------------
(* Jobs. *)

At(w, step) == job[w].at = step
Goto(w, step) == job' = [job EXCEPT ![w].at = step]
Finish(w) == job' = [job EXCEPT ![w] = Idle]
\* Sync records the failure of its steps, but for the last: the promise of markApplied is
\* returned and not awaited, so that its rejection passes the catch by.  The counter is told.
Throw(w) == IF job[w].kind = "sync" /\ ~At(w, "mark") THEN Goto(w, "fail") ELSE Finish(w)

SetCommand(c, status) == command' = [command EXCEPT ![c].status = status]

Lines(c) == {v \in Variants : line[c][v].quantity > 0}
Read(c) == [v \in Variants |-> line[c][v].quantity]
AllPriced(c) == \A v \in Lines(c) : line[c][v].price > 0
-----------------------------------------------------------------------------
(* The till. *)

\* A second capture with the same id and payload changes nothing.
Capture(c) ==
    /\ command[c].status = "none"
    /\ SetCommand(c, "queued")
    /\ UNCHANGED <<effects, saleVars, job, history, crashes>>

\* The status is read in a transaction of its own; an abandoned command is not refused.
SyncStart(w, c) ==
    /\ At(w, "idle")
    /\ command[c].status \in {"queued", "abandoned"}
    /\ job' = [job EXCEPT ![w] = [Idle EXCEPT !.at = "create", !.kind = "sync", !.of = c]]
    /\ UNCHANGED <<command, effects, saleVars, history, crashes>>

InsertSale(c) == sale' = [sale EXCEPT ![c] = [status |-> "draft", version |-> 1, total |-> Nothing]]
\* Mutant: a sale that exists is taken for a sale that is done.
CreateDraftReplayed(w) ==
    LET c == job[w].of IN
    /\ At(w, "create")
    /\ IF sale[c].status = "none" THEN InsertSale(c) ELSE UNCHANGED sale
    /\ Goto(w, IF sale[c].status # "none" THEN "mark" ELSE "line")
    /\ UNCHANGED <<command, effects, line, receipt, history, crashes>>
\* A sale that exists is gone on with.
CreateDraft(w) ==
    LET c == job[w].of IN
    /\ At(w, "create")
    /\ IF sale[c].status = "none" THEN InsertSale(c) ELSE UNCHANGED sale
    /\ Goto(w, IF sale[c].status = "committed" THEN "mark" ELSE "line")
    /\ UNCHANGED <<command, effects, line, receipt, history, crashes>>

\* addOrIncreaseLine: the price of the line is void.
AddTo(c, v, q) ==
    /\ sale[c].status = "draft"
    /\ line[c][v].quantity + q <= MaxQuantity
    /\ line' = [line EXCEPT ![c][v] = [quantity |-> @.quantity + q, price |-> 0]]

\* The lines in their order; the one after them is the pricing.
NextLine(w) == {v \in Variants \ job[w].done :
                  Payload[job[w].of][v] > 0 /\ \A u \in Variants \ job[w].done :
                                                 Payload[job[w].of][u] > 0 => v <= u}
StepOver(w, v) == job' = [job EXCEPT ![w].done = @ \cup {v}]

\* Mutant: the line is added without a look at line_effects.
ApplyLineAgain(w) ==
    LET c == job[w].of IN
    \E v \in NextLine(w) :
       /\ At(w, "line")
       /\ AddTo(c, v, Payload[c][v])
       /\ effects' = [effects EXCEPT ![c] = @ \cup {v}]
       /\ StepOver(w, v)
       /\ UNCHANGED <<command, sale, receipt, history, crashes>>
ApplyLine(w) ==
    LET c == job[w].of IN
    \E v \in NextLine(w) :
       /\ At(w, "line") /\ v \notin effects[c]
       /\ AddTo(c, v, Payload[c][v])
       /\ effects' = [effects EXCEPT ![c] = @ \cup {v}]
       /\ StepOver(w, v)
       /\ UNCHANGED <<command, sale, receipt, history, crashes>>
SkipLine(w) ==
    \E v \in NextLine(w) :
       /\ At(w, "line") /\ v \in effects[job[w].of]
       /\ StepOver(w, v)
       /\ UNCHANGED <<command, effects, saleVars, history, crashes>>
LinesDone(w) ==
    /\ At(w, "line")
    /\ \A v \in Variants : Payload[job[w].of][v] > 0 => v \in job[w].done
    /\ Goto(w, "read")
    /\ UNCHANGED <<command, effects, saleVars, history, crashes>>
-----------------------------------------------------------------------------
(* Pricing and commit; both are also used by the counter. *)

\* priceDraft, the first transaction.
ReadLines(w) ==
    LET c == job[w].of IN
    /\ At(w, "read")
    /\ sale[c].status = "draft" /\ Lines(c) # {}
    /\ job' = [job EXCEPT ![w].at = "price", ![w].read = Read(c)]
    /\ UNCHANGED <<command, effects, saleVars, history, crashes>>

\* applyPriceSnapshot of every line that was quoted, and updateTotals.
Price(w, p) ==
    LET c == job[w].of
        quoted == [v \in Variants |-> IF job[w].read[v] = 0 THEN NoLine
                                      ELSE [quantity |-> job[w].read[v], price |-> p[v]]]
    IN
    /\ line' = [line EXCEPT ![c] = [v \in Variants |-> [quantity |-> @[v].quantity,
                     price |-> IF job[w].read[v] = 0 THEN @[v].price ELSE p[v]]]]
    /\ sale' = [sale EXCEPT ![c].version = @ + 1, ![c].total = quoted]
    /\ IF job[w].kind = "sync" THEN Goto(w, "look") ELSE Finish(w)
    /\ UNCHANGED <<command, effects, receipt, history, crashes>>

\* Mutant: the lines are not compared with those that were quoted.
PriceUnchecked(w) ==
    \E p \in [Variants -> Prices] :
       /\ At(w, "price")
       /\ sale[job[w].of].status = "draft"
       /\ sale[job[w].of].version <= MaxVersion
       /\ Price(w, p)
\* priceDraft, the second transaction, with the answers of the price list.
PriceLines(w) ==
    \E p \in [Variants -> Prices] :
       /\ At(w, "price")
       /\ sale[job[w].of].status = "draft" /\ job[w].read = Read(job[w].of)
       /\ sale[job[w].of].version <= MaxVersion
       /\ Price(w, p)

\* A read without a lock, for the version to commit.
Look(w) ==
    /\ At(w, "look") /\ sale[job[w].of].status = "draft"
    /\ job' = [job EXCEPT ![w].at = "commit", ![w].version = sale[job[w].of].version]
    /\ UNCHANGED <<command, effects, saleVars, history, crashes>>

Committable(c, version) ==
    /\ sale[c].status = "draft" /\ sale[c].version = version
    /\ sale[c].total # Nothing
    /\ Lines(c) # {} /\ AllPriced(c)
    /\ receipt[c] \in {Nothing, sale[c].total}
\* The receipt, the stock and the sale in one transaction.
CommitDraft(c) ==
    /\ receipt' = [receipt EXCEPT ![c] = sale[c].total]
    /\ sale' = [sale EXCEPT ![c].status = "committed", ![c].version = @ + 1]
    /\ UNCHANGED line

Commit(w) ==
    LET c == job[w].of IN
    /\ At(w, "commit")
    /\ IF sale[c].status = "committed"
       THEN UNCHANGED saleVars
       ELSE Committable(c, job[w].version) /\ CommitDraft(c)
    /\ Goto(w, "mark")
    /\ UNCHANGED <<command, effects, history, crashes>>
\* The transaction commits and its answer is lost: sync takes it for an error.
CommitUnanswered(w) ==
    /\ At(w, "commit") /\ crashes < MaxCrashes
    /\ Committable(job[w].of, job[w].version) /\ CommitDraft(job[w].of)
    /\ crashes' = crashes + 1
    /\ Throw(w)
    /\ UNCHANGED <<command, effects, history>>
-----------------------------------------------------------------------------
(* The end of a sync. *)

MarkApplied(w) ==
    LET c == job[w].of IN
    /\ At(w, "mark")
    /\ IF command[c].status \in {"applied", "queued"}
       THEN SetCommand(c, "applied") /\ Finish(w)
       ELSE UNCHANGED command /\ Throw(w)
    /\ UNCHANGED <<effects, saleVars, history, crashes>>

\* Any step of a job may be refused: no price, no stock, another status, version or
\* quantity than it expected, an error of the database.  Its transaction is rolled back.
Refused(w) ==
    /\ job[w].at \notin {"idle", "fail"}
    /\ Throw(w)
    /\ UNCHANGED <<command, effects, saleVars, history, crashes>>

\* Mutant: the failure is recorded whatever the command has become.
MarkFailedAnyway(w) ==
    /\ At(w, "fail")
    /\ SetCommand(job[w].of, "failed")
    /\ Finish(w)
    /\ UNCHANGED <<effects, saleVars, history, crashes>>
MarkFailed(w) ==
    LET c == job[w].of IN
    /\ At(w, "fail")
    /\ IF command[c].status = "queued" THEN SetCommand(c, "failed") ELSE UNCHANGED command
    /\ Finish(w)
    /\ UNCHANGED <<effects, saleVars, history, crashes>>

Crash(w) ==
    /\ job[w].at # "idle" /\ crashes < MaxCrashes
    /\ crashes' = crashes + 1
    /\ Finish(w)
    /\ UNCHANGED <<command, effects, saleVars, history>>
-----------------------------------------------------------------------------
(* Reconciliation, by the owner of the command or by an administrator. *)

Reopen(c) ==
    /\ command[c].status = "failed" /\ command[c].recoveries < MaxRecoveries
    /\ command' = [command EXCEPT ![c] = [status |-> "queued", recoveries |-> @.recoveries + 1]]
    /\ UNCHANGED <<effects, saleVars, job, history, crashes>>

Abandon(c) ==
    /\ command[c].status = "failed"
    /\ SetCommand(c, "abandoned")
    /\ UNCHANGED <<effects, saleVars, job, history, crashes>>
-----------------------------------------------------------------------------
(* The counter on line. *)

DeskCreate(c) ==
    /\ Desk /\ sale[c].status = "none"
    /\ InsertSale(c)
    /\ UNCHANGED <<command, effects, line, receipt, job, history, crashes>>

DeskAddLine(c, v) ==
    /\ Desk
    /\ AddTo(c, v, 1)
    /\ typed' = [typed EXCEPT ![c][v] = @ + 1]
    /\ UNCHANGED <<command, effects, sale, receipt, job, counter, crashes>>

DeskPrice(w, c) ==
    /\ Desk /\ At(w, "idle") /\ sale[c].status = "draft"
    /\ job' = [job EXCEPT ![w] = [Idle EXCEPT !.at = "read", !.kind = "desk", !.of = c]]
    /\ UNCHANGED <<command, effects, saleVars, history, crashes>>

\* With the version the counter saw last; any other version is refused.
DeskCommit(c) ==
    /\ Desk /\ Committable(c, sale[c].version)
    /\ CommitDraft(c)
    /\ counter' = counter \cup {c}
    /\ UNCHANGED <<command, effects, job, typed, crashes>>
-----------------------------------------------------------------------------
JobStep(w) ==
    \/ CreateDraft(w)
    \/ ApplyLine(w) \/ SkipLine(w) \/ LinesDone(w)
    \/ ReadLines(w) \/ PriceLines(w)
    \/ Look(w) \/ Commit(w) \/ CommitUnanswered(w)
    \/ MarkApplied(w)
    \/ Refused(w) \/ MarkFailed(w)
    \/ Crash(w)

Next ==
    \/ \E w \in Workers : JobStep(w)
    \/ \E w \in Workers, c \in Commands : SyncStart(w, c) \/ DeskPrice(w, c)
    \/ \E c \in Commands :
          \/ Capture(c) \/ Reopen(c) \/ Abandon(c)
          \/ DeskCreate(c) \/ DeskCommit(c)
          \/ \E v \in Variants : DeskAddLine(c, v)

Spec == Init /\ [][Next]_vars
-----------------------------------------------------------------------------
TypeOK ==
    /\ command \in [Commands -> CommandRows]
    /\ effects \in [Commands -> SUBSET Variants]
    /\ sale \in [Commands -> SaleRows]
    /\ line \in [Commands -> [Variants -> LineRows]]
    /\ receipt \in [Commands -> Amounts]
    /\ job \in [Workers -> Jobs]
    /\ typed \in [Commands -> [Variants -> Nat]]
    /\ counter \subseteq Commands
    /\ crashes \in 0..MaxCrashes

(* However often a command is synced, interrupted, reopened and synced again, its sale *)
(* holds every line of the payload at most once, next to what the counter typed.       *)
LinesOnce ==
    \A c \in Commands, v \in Variants :
       line[c][v].quantity = typed[c][v] + IF v \in effects[c] THEN Payload[c][v] ELSE 0

(* A committed sale has a receipt, over the sum of its lines at their prices: a line   *)
(* that changed while it was priced, or since, is never sold at a stale total.  A sale *)
(* that is not committed has none.                                                     *)
PaidIsPriced ==
    \A c \in Commands :
       IF sale[c].status = "committed"
       THEN AllPriced(c) /\ receipt[c] = sale[c].total /\ sale[c].total = line[c]
       ELSE receipt[c] = Nothing

(* A till that is told "applied" has its sale committed, with the whole payload unless *)
(* the counter finished the sale on line; and no late failure takes that back.         *)
AppliedIsSold ==
    \A c \in Commands : command[c].status = "applied" =>
       /\ sale[c].status = "committed"
       /\ c \in counter \/ \A v \in Variants : Payload[c][v] > 0 => v \in effects[c]

(* A committed sale, its lines and its receipt stay as they are, and so does an        *)
(* applied command, whatever jobs are still at work on them.                           *)
SoldIsFinal ==
    [][\A c \in Commands :
          /\ sale[c].status = "committed" =>
                sale'[c] = sale[c] /\ line'[c] = line[c] /\ receipt'[c] = receipt[c]
          /\ command[c].status = "applied" => command'[c] = command[c]]_vars
=============================================================================
