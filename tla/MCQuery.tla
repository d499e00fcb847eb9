------------------------------- MODULE MCQuery -------------------------------
(***************************************************************************)
(* Four contracts: one that closes, one that only has a datum hash, one    *)
(* with money in two accounts, and one with an account that is empty.      *)
(***************************************************************************)
EXTENDS Query

At(t, slot, end, meta, scan, datum) ==
    [tx |-> t, slot |-> slot, block |-> slot, blockNum |-> slot, end |-> end,
     meta |-> meta, scan |-> scan, datum |-> datum]
Account(kind, name, token, amount) ==
    [owner |-> [kind |-> kind, name |-> name], token |-> token, symbol |-> "s",
     amount |-> amount]
Datum(accounts, bound, steps) == [accounts |-> accounts, bound |-> bound, steps |-> steps]
Of(short, id, validator, transitions) ==
    [short |-> short, id |-> id, validator |-> validator, transitions |-> transitions]

MCHistory ==
    <<Of(1, "a", "v1", <<At("a", 1, FALSE, "m", None, Datum({}, 0, TRUE)),
                         At("b", 3, TRUE, None, "error", None)>>),
      Of(2, "c", "v2", <<At("c", 1, FALSE, None, None, None)>>),
      Of(3, "d", "v1", <<At("d", 2, FALSE, "m", "warning",
                            Datum({Account("role", "r", "t", 5),
                                   Account("address", "x", "u", 2)}, 1, TRUE)),
                         At("e", 4, FALSE, None, None, Datum({}, 2, FALSE))>>),
      Of(4, "f", "v2", <<At("f", 2, FALSE, None, None,
                            Datum({Account("role", "r", "t", 0)}, 0, TRUE))>>)>>

MCShort == DOMAIN MCHistory
MCInitialStores == {{}, {2}, {1, 2, 4}, MCShort}

Str(op, hits) == [op |-> op, hits |-> hits]
Num(op, n) == [op |-> op, n |-> n]

AnyContract ==
    [id |-> None, shortId |-> None, accountState |-> None, isClosed |-> None,
     metaData |-> None, validatorHash |-> None, numberOfBoundValues |-> None]
AnyAccount ==
    [amount |-> None, currencySymbol |-> None, tokenName |-> None,
     accountOwner |-> None, numberOfAccounts |-> None]
Transitions ==
    [end |-> None, slot |-> None, block |-> None, blockNum |-> None, tx |-> None,
     scan |-> None, last |-> None]

With(f) == [after |-> None, before |-> None, first |-> None, last |-> None,
            page |-> None, pageSize |-> None, filter |-> f, describe |-> FALSE,
            transitions |-> None]
Anything == With(None)
Holding(f) == With([AnyContract EXCEPT !.accountState = f])

\* Pages, and arguments that are refused or panic.
PagingQueries ==
    {Anything,
     [Anything EXCEPT !.page = 1], [Anything EXCEPT !.page = 2],
     [Anything EXCEPT !.page = 0], [Anything EXCEPT !.page = 3, !.pageSize = 2],
     [Anything EXCEPT !.pageSize = 3], [Anything EXCEPT !.pageSize = 1],
     [Anything EXCEPT !.first = 3], [Anything EXCEPT !.first = 0],
     [Anything EXCEPT !.last = 3, !.page = 1], [Anything EXCEPT !.last = 9],
     [Anything EXCEPT !.first = 1, !.last = 1],
     [Anything EXCEPT !.before = 2], [Anything EXCEPT !.after = 0],
     [Anything EXCEPT !.after = 2, !.before = 1],
     [Anything EXCEPT !.after = ShortIdText],
     [Anything EXCEPT !.describe = TRUE],
     [Anything EXCEPT !.transitions = [Transitions EXCEPT !.last = TRUE, !.end = TRUE]],
     [Anything EXCEPT !.transitions = [Transitions EXCEPT !.slot = 1, !.scan = {"error"}]]}

\* Every filter, and both outcomes of each.
FilterQueries ==
    {With([AnyContract EXCEPT !.shortId = Str("Eq", {2})]),
     With([AnyContract EXCEPT !.shortId = Str("Eq", {9})]),
     With([AnyContract EXCEPT !.shortId = Str("Neq", {2})]),
     With([AnyContract EXCEPT !.shortId = Str("Contains", {2})]),
     With([AnyContract EXCEPT !.shortId = Str("NotContains", {2})]),
     With([AnyContract EXCEPT !.id = Str("Eq", {"c"})]),
     With([AnyContract EXCEPT !.id = Str("Eq", {"c"}), !.shortId = Str("Eq", {2})]),
     With([AnyContract EXCEPT !.id = Str("Contains", {"a", "d"})]),
     With([AnyContract EXCEPT !.validatorHash = Str("NotContains", {"v1"})]),
     With([AnyContract EXCEPT !.isClosed = FALSE]),
     With([AnyContract EXCEPT !.metaData = Str("Eq", {"m"})]),
     With([AnyContract EXCEPT !.metaData = Str("Neq", {"m"})]),
     With([AnyContract EXCEPT !.numberOfBoundValues = Num("Lte", 1)]),
     Holding([AnyAccount EXCEPT !.amount = Num("Gt", 2), !.tokenName = Str("Eq", {"t"})]),
     Holding([AnyAccount EXCEPT !.numberOfAccounts = Num("Eq", 2),
                                !.accountOwner = [kind |-> "address", name |-> Str("Eq", {"x"})]]),
     Holding(AnyAccount)}

MCQueries == PagingQueries \cup FilterQueries
=============================================================================
