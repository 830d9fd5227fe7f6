---------------------------- MODULE ProductGraph ----------------------------
(***************************************************************************)
(* product/catalogue_app.py: the product relationship graph, the check of a *)
(* combination of products and the products a portfolio could add.  A graph *)
(* is a record of its nodes, of the relation on each edge, and, for each    *)
(* node, of the products a holder of it comes across, in the order in which *)
(* the relationships were declared.  As the code keeps a DiGraph, an        *)
(* ordered pair of products has one edge at most, and the relationship      *)
(* declared last names it.                                                  *)
(***************************************************************************)
EXTENDS Integers, Sequences, FiniteSets, SequencesExt

FirstOccurrences(seq) ==
    LET first == SelectSeq([i \in DOMAIN seq |-> i], LAMBDA i : \A j \in 1..(i - 1) : seq[j] # seq[i])
    IN  [n \in DOMAIN first |-> seq[first[n]]]

\* The products to which a product is related, or which require it.
Across(edges, relation, sku) ==
    LET to(name) == SelectSeq(edges, LAMBDA e : e[1] = sku /\ relation[e] = name)
        from     == SelectSeq(edges, LAMBDA e : e[2] = sku /\ relation[e] = "REQUIRES")
        Ends(seq, n) == [i \in DOMAIN seq |-> seq[i][n]]
    IN  Ends(to("COMPATIBLE_WITH"), 2) \o Ends(to("UPGRADES_TO"), 2) \o Ends(from, 1)

LoadGraph(products, rels) ==
    LET pairs    == [i \in DOMAIN rels |-> <<rels[i].from, rels[i].to>>]
        last(e)  == SelectLastInSeq(pairs, LAMBDA pair : pair = e)
        nodes    == products \cup UNION {{e[1], e[2]} : e \in ToSet(pairs)}
        relation == [e \in ToSet(pairs) |-> rels[last(e)].type]
    IN  [nodes |-> nodes, relation |-> relation,
         across |-> [sku \in nodes |-> Across(FirstOccurrences(pairs), relation, sku)]]

Neighbours(graph, sku, relation) ==
    {v \in graph.nodes : <<sku, v>> \in DOMAIN graph.relation
                         /\ graph.relation[<<sku, v>>] = relation}

\* A pair of products related both ways round.  A conflicting file is not loaded.
Conflicting(graph) ==
    \E e, f \in DOMAIN graph.relation :
        /\ {e[1], e[2]} = {f[1], f[2]}
        /\ graph.relation[e] = "COMPATIBLE_WITH"
        /\ graph.relation[f] = "INCOMPATIBLE_WITH"

IsCombinationValid(graph, skus) ==
    \A sku \in skus :
        LET required == Neighbours(graph, sku, "REQUIRES")
        IN  /\ sku \in graph.nodes
            /\ Neighbours(graph, sku, "UPGRADES_TO") \cap skus = {}
            /\ Neighbours(graph, sku, "INCOMPATIBLE_WITH") \cap skus = {}
            /\ required # {} => required \cap skus # {}

(***************************************************************************)
(* POST /graph/compatible-candidates: the products to which a held one is   *)
(* related, in the order in which they are come across from the held ones   *)
(* in alphabetical order, and of those the valid additions.                 *)
(***************************************************************************)

\* The elements of a sequence that are in a set, each at its first occurrence.
Selected(seq, set) ==
    FlattenSeq([i \in DOMAIN seq |->
                   IF seq[i] \in set /\ \A j \in 1 .. i - 1 : seq[j] # seq[i]
                   THEN <<seq[i]>> ELSE <<>>])

ComeAcross(graph, sorted) == FlattenSeq([n \in DOMAIN sorted |-> graph.across[sorted[n]]])

\* Mutant of CompatibleCandidates: the candidates are not validated.
CompatibleCandidatesAll(graph, sorted) ==
    Selected(ComeAcross(graph, sorted), graph.nodes \ ToSet(sorted))

CompatibleCandidates(graph, sorted) ==
    Selected(ComeAcross(graph, sorted),
             {sku \in graph.nodes \ ToSet(sorted) :
                 IsCombinationValid(graph, ToSet(sorted) \cup {sku})})
=============================================================================
