---------------------------- MODULE FeeSimulator ----------------------------
(***************************************************************************)
(* The fee simulation of packages/protocol/src/feeSimulator.ts, computed a *)
(* second time by the dashboard's FeeSimulatorPage, and its readers: the   *)
(* gateway's /v1/fees/simulate, `aeeron fees` and the page's export.       *)
(***************************************************************************)
EXTENDS Integers

CONSTANTS Prices,  \* pricePerCallLamports asked for
          Calls,   \* numbers of calls asked for
          baseTxFee, protocolFeeBps, channelOpenLamports, channelCloseLamports,
          pageTxFee, pageFeeBps, pageOpenClose, pageBreakEven  \* the page's own

ASSUME FeesAssumption ==
    /\ Prices \cup Calls \subseteq Nat
    /\ {protocolFeeBps, channelOpenLamports, channelCloseLamports} \subseteq Nat
    /\ baseTxFee \in Nat \ {0}
    /\ {pageTxFee, pageFeeBps, pageOpenClose, pageBreakEven} \subseteq Nat

VARIABLES question,  \* price, calls and who asks
          answer     \* what it is answered

feesVars == <<question, answer>>

Unasked == [price |-> 0, calls |-> 0, by |-> "nobody"]

FeesInit == question = Unasked /\ answer = "none"

-----------------------------------------------------------------------------

bps(amount, basisPoints) == (amount * basisPoints) \div 10000

PerCall(total, calls) == IF calls > 0 THEN total \div calls ELSE 0

simulateDirectPay(price, calls) ==
    LET payment == price * calls
        total == payment + bps(payment, protocolFeeBps) + baseTxFee * calls
    IN [total |-> total, perCall |-> PerCall(total, calls)]

openCloseFee == channelOpenLamports + channelCloseLamports

FaultyBreakEven == openCloseFee \div baseTxFee

breakEvenCalls == openCloseFee \div baseTxFee + 1

simulateChannel(price, calls) ==
    LET payment == price * calls
        total == payment + bps(payment, protocolFeeBps) + openCloseFee
        direct == simulateDirectPay(price, calls).total
    IN [total |-> total, perCall |-> PerCall(total, calls),
        savings |-> IF direct > total THEN direct - total ELSE 0,
        breakEven |-> breakEvenCalls]

simulateComparison(price, calls) ==
    LET direct == simulateDirectPay(price, calls)
        channel == simulateChannel(price, calls)
    IN [direct |-> direct, channel |-> channel,
        recommendation |-> IF channel.total <= direct.total THEN "channel" ELSE "direct",
        breakEven |-> channel.breakEven]

\* What the page shows and exports, with constants of its own.
Page(price, calls) ==
    LET payment == price * calls
        direct == payment + bps(payment, pageFeeBps) + pageTxFee * calls
        channel == payment + bps(payment, pageFeeBps) + pageOpenClose
    IN [direct |-> [total |-> direct, perCall |-> PerCall(direct, calls)],
        channel |-> [total |-> channel, perCall |-> PerCall(channel, calls),
                     savings |-> IF direct > channel THEN direct - channel ELSE 0],
        recommendation |-> IF channel <= direct THEN "channel" ELSE "direct",
        breakEven |-> pageBreakEven]

-----------------------------------------------------------------------------

\* res.json throws on a bigint: only mode "both" turns them into strings.
Simulate(price, calls, mode) ==
    /\ question' = [price |-> price, calls |-> calls, by |-> mode]
    /\ answer' = IF mode = "both" THEN simulateComparison(price, calls) ELSE "threw"

\* `aeeron fees`
FeesCommand(price, calls) ==
    /\ question' = [price |-> price, calls |-> calls, by |-> "cli"]
    /\ answer' = simulateComparison(price, calls)

\* The inputs of the page change, and with them what Export JSON writes.
ShowPage(price, calls) ==
    /\ question' = [price |-> price, calls |-> calls, by |-> "page"]
    /\ answer' = Page(price, calls)

FeesNext ==
    \E price \in Prices, calls \in Calls :
        \/ \E mode \in {"direct", "channel", "both"} : Simulate(price, calls, mode)
        \/ FeesCommand(price, calls) \/ ShowPage(price, calls)

FeesSpec == FeesInit /\ [][FeesNext]_feesVars

-----------------------------------------------------------------------------
(* Properties *)

Answered == question.by \in {"both", "cli", "page"}

\* From the break-even number of calls that the library answers with, and not
\* before, its channel saves money, whatever the price and however fees round.
SavesFromBreakEven ==
    question.by \in {"both", "cli"} =>
        (answer.channel.savings > 0 <=> question.calls >= answer.breakEven)

\* The dashboard's own arithmetic, on numbers of its own, gives the costs, the
\* savings and the advice of the library; its break-even is PageBreakEvenIsLibrarys.
PageAgreesWithLibrary ==
    question.by = "page" =>
        LET library == simulateComparison(question.price, question.calls) IN
        /\ answer.direct = library.direct
        /\ answer.channel.total = library.channel.total
        /\ answer.channel.savings = library.channel.savings
        /\ answer.recommendation = library.recommendation

\* The library's break-even is where its costs cross, and the page shows the
\* library's costs.
FeesRight == SavesFromBreakEven /\ PageAgreesWithLibrary

\* FeeSimulatorPage.tsx:192: "Break-even at ${breakEven} calls.", which is 2, as
\* the export's breakEvenCalls is; the library's breakEvenCalls is 3.
PageBreakEvenIsLibrarys ==
    question.by = "page" =>
        answer.breakEven = simulateComparison(question.price, question.calls).breakEven

\* docs/tokenomics.md:50: "Aeeron charges a 0.1% fee on all settled payments".
\* Both simulators charge 50 basis points, 0.5%.
FeeIsATenthPercent ==
    Answered =>
        LET payment == question.price * question.calls
            networkFee == baseTxFee * question.calls IN
        answer.direct.total = payment + bps(payment, 10) + networkFee

\* feeSimulator.ts:137: "Returns both modes side-by-side and a recommendation",
\* with one breakEvenCalls beside it.  At one call less than that the channel is
\* already recommended, as it costs the same.
RecommendsFromBreakEven ==
    Answered => (answer.recommendation = "channel" <=> question.calls >= answer.breakEven)

\* fees.ts:17: "Returns a cost breakdown for the given price-per-call and call
\* count."  Not so for modes "direct" and "channel".
EveryModeAnswered == question.by \in {"direct", "channel"} => answer # "threw"

=============================================================================
