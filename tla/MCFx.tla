--------------------------------- MODULE MCFx ---------------------------------
(***************************************************************************)
(* FxRates and FxPage in one run.  The page sees of the service only       *)
(* whether its table is filled, which FxPage has as a variable of its own, *)
(* so the two are not interleaved: a behaviour is one of the service or    *)
(* one of the page, with the other at rest.                                *)
(***************************************************************************)
EXTENDS FxRates, FxPage

VARIABLE half

MCInit ==
    /\ half \in {"service", "page"}
    /\ Init /\ PageInit

Service == half = "service" /\ Next /\ UNCHANGED <<half, pageVars>>
Browser == half = "page" /\ PageNext /\ UNCHANGED <<half, vars>>

MCNext == Service \/ Browser

MCSpec ==
    /\ MCInit /\ [][MCNext]_<<half, vars, pageVars>>
    /\ WF_vars(half = "service" /\ Tick)
    /\ \A w \in Workers : WF_vars(half = "service" /\ Step(w))

\* EventuallyCurrent, in the behaviours of the service.
ServiceEventuallyCurrent == half = "service" => EventuallyCurrent
=============================================================================
