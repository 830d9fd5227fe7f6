---------------------------- MODULE SerialIntents ----------------------------
(***************************************************************************)
(* What the write path promises to a client that sends the intents for a    *)
(* customer one at a time.  Such a client waits for the broker's answer, no *)
(* longer: an answer 502 frees it, although the handler that the broker     *)
(* gave up may still have its write to do at Billing.  Nothing is promised  *)
(* of an intent that was sent while such a write was outstanding; as soon   *)
(* as one is sent when there is none, the promises hold again.              *)
(***************************************************************************)
EXTENDS SubscriptionProperties

VARIABLE overtaken   \* history: serial customers whose last intent was sent too early

svars == <<vars, overtaken>>

\* A handler at Billing has still to write an intent for the customer, or to refuse it.
Unwritten(c) ==
    \E w \in Tasks : work[w].pc \in {"arrived", "fetch", "fetched"} /\ work[w].req.cust = c

Sent(c) ==
    \E b \in Tasks : chain[b].pc = "idle" /\ chain'[b].pc # "idle" /\ chain'[b].intent.cust = c

Remember == overtaken' = {c \in Serial : IF Sent(c) THEN Unwritten(c) ELSE c \in overtaken}

SInit == Init /\ overtaken = {}

SNext == Next /\ Remember

SSpec == SInit /\ [][SNext]_svars

Undisturbed == Serial \ overtaken

-----------------------------------------------------------------------------
\* What the relationships of the catalogue ask of a portfolio.
Excluded == {{e[1], e[2]} : e \in {f \in DOMAIN Graph.relation :
                                     Graph.relation[f] \in {"UPGRADES_TO", "INCOMPATIBLE_WITH"}}}

Acceptable(skus) ==
    /\ \A pair \in Excluded : ~(pair \subseteq skus)
    /\ \A sku \in skus : LET needed == Neighbours(Graph, sku, "REQUIRES")
                        IN  needed = {} \/ \E other \in skus : other \in needed

(***************************************************************************)
(* The agent of a serial customer can rely on the verdict of the catalogue: *)
(* what it adds with that verdict makes an acceptable portfolio when it is  *)
(* written, two awaited calls after the portfolio was read, although other  *)
(* customers' intents and recalculations go on meanwhile and the broker may *)
(* have given earlier intents up.                                           *)
(***************************************************************************)
AdditionsValid ==
    [][\A b \in Tasks :
          LET c == work[b].req.cust
          IN  c \in Undisturbed /\ chain[b].checked /\ AddCommit(b) =>
                  Acceptable(ActiveSkus(book'[c]))]_svars

\* Every line is still there; its status is the same, or cancelled now.
LinesKept(lines, later) ==
    \A i \in DOMAIN lines : \E j \in DOMAIN later :
        later[j].sku = lines[i].sku /\ later[j].stat \in {lines[i].stat, "C"}

(***************************************************************************)
(* No write to a serial customer's record, whoever makes it, undoes a       *)
(* product the customer took or a product's cancellation, although an       *)
(* addition writes back the copy it took before it waited for the           *)
(* catalogue.  (The copy's list prices and charges may be older than those  *)
(* a recalculation wrote meanwhile: of these nothing is said.)              *)
(***************************************************************************)
SerialChangesKept == [][\A c \in Undisturbed : LinesKept(book[c], book'[c])]_svars
=============================================================================
