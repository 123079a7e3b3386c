-------------------------------- MODULE MCStages --------------------------------
(* Bounded instances of the network stages, and of the catalog that is made of    *)
(* what they find.  The parts share no variable: a behavior explores one of them  *)
(* and leaves the others where they started.                                     *)
EXTENDS CodeSearch, HttpTransport, Discovery, Visibility, ScanTail, MCCatalog, TLC

CONSTANTS repo1, repo2, tail1, tail2, tail3, new1, new2

VARIABLE part

Parts == {"search", "transport", "discovery", "visibility", "tail", "catalog"}

File(id, repo, hidden, tokens, ext, size) ==
    [id |-> id, repo |-> repo, private |-> hidden, tokens |-> tokens, ext |-> ext,
     size |-> size, members |-> {"pack"}]

MCCorpora ==
    {<<File(1, "r1", "no", {"t"}, "py", 0), File(2, "r1", "no", {}, "py", 0),
       File(3, "r2", "no", {"t"}, "py", 0)>>,
     <<File(1, "r1", "no", {"t"}, "py", 0), File(2, "r2", "yes", {"u"}, "py", 1),
       File(3, "r3", "no", {}, "cu", 1)>>,
     <<File(1, "r1", "no", {}, "py", 0), File(2, "r1", "no", {}, "py", 0),
       File(3, "r2", "no", {}, "py", 0), File(4, "r3", "no", {"t"}, "py", 0)>>,
     <<File(1, "r1", "no", {}, "py", 0), File(2, "r2", "unknown", {}, "md", 0)>>}

MCPacing == <<1>>
MCLibraries == <<"a", "b">>

Interchangeable == Permutations({repo1, repo2}) \cup Permutations({new1, new2})

\* The tail starts with one or two completed repositories, whichever they are; where
\* it starts is of no interest to the other parts.
Interrupted ==
    IF part = "tail" THEN With({"complete"}) \in {{tail1}, {tail1, tail2}}
    ELSE tailStatus = "failed" /\ With({"complete"}) = Universe

StagesInit ==
    /\ part \in Parts
    /\ SearchInit
    /\ part /= "search" => honesty = "steady" /\ Len(index) = 2
    /\ TransportInit /\ DiscoveryInit /\ VisibilityInit
    /\ TailInit /\ Interrupted
    /\ CatalogInit
    /\ part /= "catalog" => tree[adopter] = <<{}>>

StagesNext ==
    /\ UNCHANGED part
    /\ IF part = "search" THEN SearchNext ELSE UNCHANGED searchVars
    /\ IF part = "transport" THEN TransportNext ELSE UNCHANGED transportVars
    /\ IF part = "discovery" THEN DiscoveryNext ELSE UNCHANGED discoveryVars
    /\ IF part = "visibility" THEN VisibilityNext ELSE UNCHANGED visibilityVars
    /\ IF part = "tail" THEN TailNext ELSE UNCHANGED tailVars
    /\ IF part = "catalog" THEN CatalogNext ELSE UNCHANGED catalogVars

StagesSpec ==
    StagesInit /\ [][StagesNext]_<<part, searchVars, transportVars, discoveryVars, visibilityVars,
                                  tailVars, catalogVars>>

================================================================================
