----------------------------- MODULE MCServices -----------------------------
(***************************************************************************)
(* The services that meet only in tables which other modules keep, side by *)
(* side on small instances. They share no state, so their interleavings    *)
(* add nothing: `focus` is chosen once and says which of them moves, while *)
(* the others rest in one initial state. For the modules without actions   *)
(* it says which inputs are enumerated.                                    *)
(***************************************************************************)
EXTENDS HealthCheck, Pollers, NewsBackfill, ApiPool, RepairPlans, Analysis, Backtest, Supervisor, TLC

VARIABLE focus

MCInitialWork == {{"market", "bars"}, {"tags", "news"}}

MCRssFeeds == <<"coindesk", "decrypt">>

MCKeyLists == {<<"k1", "k2">>, <<"k1", "k1">>, <<"k1", "k1", "k2">>}

MCDistinctKeys == {<<"k1", "k2">>}

MCArchives == SUBSET [at : 1 .. 4, id : {0, 1}]

MCSymmetry == Permutations(Checks)

MCDayRuns == {<< <<3, 5>>, <<1, 2>> >>, << <<2, 4>> >>}

Rests(f, restState) == IF focus = f THEN TRUE ELSE restState

Init ==
    /\ focus \in {"health", "pollers", "gdelt", "cryptocompare", "windows", "api",
                  "plans", "series", "backtest", "supervisor"}
    /\ Rests("health", work = {"tags", "news"} /\ dry = FALSE) /\ HInit
    /\ PInit /\ GInit /\ WInit
    /\ Rests("cryptocompare", /\ archive = {} /\ keys = <<"k1", "k2">>
                              /\ runs = << <<2, 4>> >>)
    /\ NInit
    /\ Rests("api", dbUp = TRUE) /\ AInit
    /\ Rests("plans", candles = {} /\ daysOff = {} /\ since = 1)
    /\ RInit
    /\ Rests("series", NoHorizons /\ articles = << >> /\ bars = << >>)
    /\ SInit
    /\ Rests("backtest", /\ priced = [c \in Coins |-> {}] /\ testFrom = 1 /\ testTo = 2
                         /\ actions = << >>)
    /\ TInit
    /\ SuperInit

Fixed == UNCHANGED <<rvars, svars, tvars, focus>>

OnlyHealth ==
    /\ focus = "health" /\ HNext /\ Fixed
    /\ UNCHANGED <<pvars, gvars, nvars, wvars, avars, superVars>>

OnlyPollers ==
    /\ focus = "pollers" /\ PNext /\ Fixed
    /\ UNCHANGED <<hvars, gvars, nvars, wvars, avars, superVars>>

OnlyGdelt ==
    /\ focus = "gdelt" /\ GNext /\ Fixed
    /\ UNCHANGED <<hvars, pvars, nvars, wvars, avars, superVars>>

OnlyCryptoCompare ==
    /\ focus = "cryptocompare" /\ NNext /\ Fixed
    /\ UNCHANGED <<hvars, pvars, gvars, wvars, avars, superVars>>

OnlyWindows ==
    /\ focus = "windows" /\ WNext /\ Fixed
    /\ UNCHANGED <<hvars, pvars, gvars, nvars, avars, superVars>>

OnlyApi ==
    /\ focus = "api" /\ ANext /\ Fixed
    /\ UNCHANGED <<hvars, pvars, gvars, nvars, wvars, superVars>>

OnlySupervisor ==
    /\ focus = "supervisor" /\ SuperNext /\ Fixed
    /\ UNCHANGED <<hvars, pvars, gvars, nvars, wvars, avars>>

Next ==
    \/ OnlyHealth \/ OnlyPollers \/ OnlyGdelt \/ OnlyCryptoCompare \/ OnlyWindows
    \/ OnlyApi \/ OnlySupervisor

allVars == <<hvars, pvars, gvars, nvars, wvars, avars, rvars, svars, tvars, superVars, focus>>

Spec == Init /\ [][Next]_allVars

(* Every variable of the services stays in its range (their TypeOKs).        *)
TypeOK == HTypeOK /\ PTypeOK /\ GTypeOK /\ NTypeOK /\ WTypeOK /\ ATypeOK /\ SuperTypeOK
=============================================================================
