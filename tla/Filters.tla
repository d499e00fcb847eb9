------------------------------- MODULE Filters -------------------------------
(***************************************************************************)
(* The filters of the GraphQL queries (graphql/filters.rs, types.rs) and   *)
(* of the field "transitions" of a contract (resolvers/contract.rs).       *)
(*                                                                         *)
(* A filter on strings is an operator and the strings it selects: those    *)
(* equal to its text for Eq and Neq, those that have its text in them for  *)
(* Contains and NotContains.  Absent filters, datums and metadata are      *)
(* None, and an absent string is compared as the empty one.                *)
(***************************************************************************)
EXTENDS Integers, Sequences, FiniteSets

CONSTANT None       \* Rust's None

\* The string a missing one is replaced by (unwrap_or_default).
Empty == "empty"

\* StringFilter, NumFilter
StringFilter(strings) ==
    [op : {"Eq", "Neq", "Contains", "NotContains"}, hits : SUBSET strings]
NumFilter(numbers) == [op : {"Eq", "Gt", "Lt", "Lte", "Gte"}, n : numbers]

\* str_check
StrCheck(f, s) == IF f.op \in {"Eq", "Contains"} THEN s \in f.hits
                                                 ELSE s \notin f.hits

\* num_check
NumCheck(f, n) ==
    CASE f.op = "Eq"  -> n = f.n
      [] f.op = "Gt"  -> n > f.n
      [] f.op = "Lt"  -> n < f.n
      [] f.op = "Lte" -> n <= f.n
      [] f.op = "Gte" -> n >= f.n

\* str_check_opt, num_check_opt
StrCheckOpt(f, s) == f = None \/ StrCheck(f, s)
NumCheckOpt(f, n) == f = None \/ NumCheck(f, n)

LastOf(c) == c.transitions[Len(c.transitions)]

\* bound_values: a contract without a datum never matches.
BoundValues(f, c) ==
    f = None \/ (LastOf(c).datum # None /\ NumCheck(f, LastOf(c).datum.bound))

\* meta: some transition's metadata, or the lack of it, matches.
Meta(f, c) ==
    f = None \/ \E k \in DOMAIN c.transitions :
        StrCheck(f, IF c.transitions[k].meta = None THEN Empty
                    ELSE c.transitions[k].meta)

\* The owner of an account is a role or an address, and so is the filter.
OwnerMatches(f, owner) == f = None \/ (f.kind = owner.kind /\ StrCheck(f.name, owner.name))

\* locked_funds: one account with money in it has to match in everything.
LockedFunds(f, c) ==
    IF LastOf(c).datum = None
    THEN \A field \in DOMAIN f : f[field] = None
    ELSE /\ NumCheckOpt(f.numberOfAccounts, Cardinality(LastOf(c).datum.accounts))
         /\ \E a \in LastOf(c).datum.accounts :
               /\ a.amount > 0
               /\ NumCheckOpt(f.amount, a.amount)
               /\ StrCheckOpt(f.currencySymbol, a.symbol)
               /\ StrCheckOpt(f.tokenName, a.token)
               /\ OwnerMatches(f.accountOwner, a.owner)

\* The filters contracts_query_base applies to a contract it has looked up.
Matches(f, c) ==
    /\ StrCheckOpt(f.id, c.id)
    /\ BoundValues(f.numberOfBoundValues, c)
    /\ StrCheckOpt(f.validatorHash, c.validator)
    /\ f.isClosed # None => f.isClosed = LastOf(c).end
    /\ f.accountState # None => LockedFunds(f.accountState, c)
    /\ Meta(f.metaData, c)

\* Contract::transitions: what TransitionFilter selects.
SelectedTransitions(f, c) ==
    IF f = None THEN c.transitions
    ELSE SelectSeq(c.transitions, LAMBDA t :
            /\ \A field \in {"end", "slot", "block", "blockNum", "tx"} :
                  f[field] # None => f[field] = t[field]
            /\ f.scan # None => t.scan # None /\ t.scan \in f.scan)

\* "last" takes the last of the selected transitions, which must exist.
TransitionsPanic(f, c) ==
    f # None /\ f.last = TRUE /\ SelectedTransitions(f, c) = <<>>
=============================================================================
