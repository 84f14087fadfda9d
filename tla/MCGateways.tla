------------------------------ MODULE MCGateways ------------------------------
(***************************************************************************)
(* What the shop sells and how: the gateway of the partners, the session at *)
(* Kiosgamer and the catalogue, for TLC.  A behaviour runs one of them      *)
(* (focus) and leaves the others at one of their starts.                    *)
(***************************************************************************)
EXTENDS PartnerGateway, KiosgamerSession, Catalogue

CONSTANTS plain1, plain2, broken, moved, rushed, g1, g2

VARIABLE focus

vars == <<gatewayVars, sessionVars, catalogueVars, focus>>

\* Two plain refs together, each of the others alone.
PlainPair == {{plain1, plain2}, {broken}, {moved}, {rushed}}

\* The account's own chores, or two purchases, never both.
Chores == {"keepAlive", "check", "recover", "save"}
TwoCrews == {Chores, {"buy", "ask"}}
ChoresOnly == {Chores}
Sales == {{"buy", "ask"}}

\* The daily price run beside one other writer of the row, and the writers
\* that touch the same columns in pairs.
With(works, rival) == [works |-> works, rival |-> rival]
Days ==
    {With({"auto", w}, "catalogue") : w \in {"page", "edit", "switch", "save", "import"}}
    \cup {With({"create", "price"}, "kiosgamer"), With({"price", "map"}, "kiosgamer"),
          With({"price", "switch"}, "catalogue"),
          With({"delete", "kios", "unmap", "auto"}, "kiosgamer")}

Init ==
    /\ focus \in {"partner", "kiosgamer", "catalogue"}
    /\ GatewayInit /\ SessionInit /\ CatalogueInit
    /\ focus # "partner" => uses = {plain1, plain2}
    /\ focus # "kiosgamer" => crew = Chores
    /\ focus # "catalogue" => shift = With({"price", "switch"}, "catalogue")

Next ==
    /\ UNCHANGED focus
    /\ \/ focus = "partner" /\ GatewayNext
       \/ focus # "partner" /\ UNCHANGED gatewayVars
    /\ \/ focus = "kiosgamer" /\ SessionNext
       \/ focus # "kiosgamer" /\ UNCHANGED sessionVars
    /\ \/ focus = "catalogue" /\ CatalogueNext
       \/ focus # "catalogue" /\ UNCHANGED catalogueVars

\* A request and a call run to their end, and so does an open order; a partner
\* asks again and a callback is tried again.  The keep-alive and the daily
\* price run come back, and a page leaves the cache.  Nothing is assumed of
\* other calls, admins, failures, the shop at Kiosgamer or the price lists.
Fairness ==
    /\ \A q \in Requests : WF_gatewayVars(focus = "partner" /\ Step(q))
    /\ \A i \in Invoices : WF_gatewayVars(focus = "partner" /\ i \in DOMAIN orders /\ Settle(i))
    /\ \A r \in Refs : WF_gatewayVars(focus = "partner" /\ CheckStatus(r))
    /\ WF_gatewayVars(focus = "partner" /\ \E p \in posts : Deliver(p))
    /\ \A k \in Callings : WF_sessionVars(focus = "kiosgamer" /\ StepOf(k))
    /\ SF_sessionVars(focus = "kiosgamer" /\ \E k \in Callings : Begin(k, "keepAlive"))
    /\ \A k \in Dealers : WF_catalogueVars(focus = "catalogue" /\ DealerStep(k))
    /\ SF_catalogueVars(focus = "catalogue" /\ \E k \in Dealers : Open(k, "auto", "digi"))
    /\ WF_catalogueVars(focus = "catalogue" /\ Expire)

Spec == Init /\ [][Next]_vars /\ Fairness

\* The type invariants of the three together.
GatewaysTypeOK == GatewayTypeOK /\ SessionTypeOK /\ CatalogueTypeOK
===============================================================================
