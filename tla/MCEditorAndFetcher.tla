------------------------- MODULE MCEditorAndFetcher -------------------------
(***************************************************************************)
(* Two parts of the dApp that share nothing, each for a question of its    *)
(* own and with the other at rest: the strategy editor and its keys, with  *)
(* two drafts, swaps and a settle node and no edges; and the data fetcher  *)
(* with the sources and the slots of the code.                             *)
(***************************************************************************)
EXTENDS BuilderWorkspace, DataFetcher

MCTypeOf(n) == IF n = "t1" THEN "settle" ELSE "swap"
MCTemplates == {[types |-> <<>>, links |-> <<>>], [types |-> <<"swap">>, links |-> <<>>]}

MCPublicOnce == <<"readiness">>
MCPublicPolled == <<"ticker", "markets">>
MCPublicLast == <<"proposals">>
MCAuthedPolled == <<"activities", "positions", "walletBalance">>
MCAuthedOnce == <<"strategies", "proposals", "community", "templates", "nodeTypes">>

mcVars == <<builderVars, fetchVars, busVars>>

MCInit == BuilderInit /\ BusInit /\ FetcherInit

-----------------------------------------------------------------------------
EditorSpec ==
    MCInit /\ [][ /\ BuilderNext /\ \A d \in DraftIds : drafts'[d].edges = <<>>
                  /\ UNCHANGED <<fetchVars, busVars>> ]_mcVars

\* A sign-in, as PermitIsGranted of ConnectFlow has it, beside the public polling.
SignIn ==
    /\ HasSerial(AuthedPolled) /\ ~authStarted
    /\ StartAuthenticated /\ Enable
    /\ UNCHANGED <<publicStarted, demoStarted, hidden, hiddenPaused, watching,
                   filled, wallet, unlocked, errorCount>>

FetcherSpec == MCInit /\ [][(FetcherNext \/ SignIn) /\ UNCHANGED builderVars]_mcVars
=============================================================================
