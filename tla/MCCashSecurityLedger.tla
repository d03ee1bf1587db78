------------------------ MODULE MCCashSecurityLedger ------------------------
(***************************************************************************)
(* Small instances of CashSecurityLedger.                                  *)
(***************************************************************************)
EXTENDS CashSecurityLedger, TLC

CONSTANTS o1, o2, o3, t1, t2, s1, s2

MCOrders == {o1, o2}
MCOrders3 == {o1, o2, o3}
MCTicks == {t1, t2}
MCSubscriptionIds == {s1, s2}
Symmetry == Permutations(MCOrders3) \cup Permutations(MCSubscriptionIds)

MCQuote == t1 :> [bid |-> 2, bidVolume |-> 1, ask |-> 1, askVolume |-> 3] @@
           t2 :> [bid |-> 1, bidVolume |-> 2, ask |-> 2, askVolume |-> 1]

Stock(kind) == [settlementDays |-> 1, kind |-> kind, feeScope |-> "ORDER"]
Bond(kind) == [settlementDays |-> 0, kind |-> kind, feeScope |-> "TRADE"]

MCProducts == {Stock("CASH_DIVIDEND"), Stock("STOCK_DIVIDEND"),
               Stock("RIGHTS_ISSUE"), Stock("REVERSE_SPLIT"), Stock("STOCK_SPLIT"),
               Bond("BOND_MATURITY_REDEMPTION")}

MCDividends == {Stock("CASH_DIVIDEND")}

Term(base, ratio, cash, price, lieu) ==
    [base |-> base, ratio |-> ratio, cash |-> cash, price |-> price, lieu |-> lieu]

MCTerms == [kind \in Kinds |->
    CASE kind \in IncomeKinds -> Term(1, 0, 1, 0, 0)
      [] kind = "STOCK_DIVIDEND" -> Term(2, 1, 0, 0, 0)
      [] kind = "RIGHTS_ISSUE" -> Term(1, 1, 0, 1, 0)
      [] kind = "STOCK_SPLIT" -> Term(1, 2, 0, 0, 1)
      [] kind = "REVERSE_SPLIT" -> Term(2, 1, 0, 0, 2)
      [] OTHER -> Term(1, 0, 3, 0, 0)]

Schedule(record, ex, payment, listing, start, end) ==
    [record |-> record, ex |-> ex, payment |-> payment, listing |-> listing,
     subscriptionStart |-> start, subscriptionEnd |-> end]

\* 0 is a date the action does not have.
MCSchedules == [kind \in Kinds |->
    CASE kind \in IncomeKinds -> {Schedule(1, 2, 2, 0, 0, 0)}
      [] kind = "STOCK_DIVIDEND" -> {Schedule(1, 2, 0, 3, 0, 0), Schedule(1, 1, 0, 1, 0, 0)}
      [] kind = "RIGHTS_ISSUE" -> {Schedule(1, 2, 0, 3, 2, 2)}
      [] kind \in SplitKinds -> {Schedule(1, 1, 2, 0, 0, 0), Schedule(1, 2, 2, 0, 0, 0)}
      [] OTHER -> {Schedule(1, 2, 2, 0, 0, 0)}]

ASSUME MCSchedulesAssumption == SchedulesInOrder

=============================================================================
