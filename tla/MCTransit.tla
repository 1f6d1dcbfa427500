------------------------------ MODULE MCTransit ------------------------------
(***************************************************************************)
(* Instances of Transit for TLC.                                           *)
(***************************************************************************)
EXTENDS Transit, TLC

CONSTANTS x, y, none

\* "a" and "A" are the same ignoring case.
MCComponents == {"task.json", "a", "A", "b", "aux", ".git", "_logs", "_LOGS"}

MCFold == [c \in MCComponents |->
              CASE c = "A" -> "a" [] c = "_LOGS" -> "_logs" [] OTHER -> c]

MCDisks == {MCFold, [c \in MCComponents |-> c]}

MCManifests == {m \in Manifests : m.executable \/ m.placeholders = {}}

Good == [properties |-> {"text"}, required |-> {}, open |-> FALSE,
         placeholders |-> {"text"}, executable |-> TRUE]

Data(mark, size) == [mark |-> mark, size |-> size, manifest |-> none]

Json(m, size) == [mark |-> x, size |-> size, manifest |-> m]

MCContents == {Data(x, 0), Data(x, 1), Data(y, 1), Data(x, 2)}
              \cup {Json(Good, 1), Json(Good, 2)} \cup {Json(m, 1) : m \in MCManifests}

\* Directories: every subset of these nodes that is a tree.
Node3(path, kind, content) == [path |-> path, kind |-> kind, content |-> content]

Candidates ==
    {Node3(<<"a">>, "file", Data(x, 1)), Node3(<<"a">>, "directory", Data(x, 1)),
     Node3(<<"A">>, "file", Data(y, 1)), Node3(<<"A">>, "directory", Data(x, 1)),
     Node3(<<"a", "b">>, "file", Data(x, 1)), Node3(<<"A", "b">>, "file", Data(y, 1)),
     Node3(<<"b">>, "link", Data(x, 1))}

InTree(candidates) == {tree \in SUBSET candidates : IsTree(tree)}

MCTrees ==
    InTree(Candidates \cup {Node3(<<"task.json">>, "file", Json(Good, 1)),
                            Node3(<<"aux">>, "file", Data(x, 1)),
                            Node3(<<".git">>, "directory", Data(x, 1)),
                            Node3(<<".git", "b">>, "link", Data(x, 1)),
                            Node3(<<".git", "a">>, "file", Data(x, 1))})

MCOutputs ==
    InTree(Candidates \cup {Node3(<<"_logs">>, "file", Data(y, 1)),
                            Node3(<<"_LOGS">>, "directory", Data(y, 1)),
                            Node3(<<"_LOGS", "a">>, "file", Data(y, 1))})

MCLogs == {Node3(<<"_logs", "a">>, "file", Data(x, 1)),
           Node3(<<"_logs", "b">>, "file", Data(x, 1))}

\* Archives: up to three of the entries, four files of little content, or task.json alone
\* with any manifest.
E(path, directory, content) ==
    [path |-> path, directory |-> directory, link |-> FALSE, sound |-> TRUE,
     content |-> content]

Entries ==
    {E(<<"a">>, FALSE, Data(x, 1)), E(<<"a">>, TRUE, Data(x, 0)),
     E(<<"A">>, FALSE, Data(y, 1)), E(<<"A">>, TRUE, Data(x, 0)),
     E(<<"a", "b">>, FALSE, Data(x, 2)), E(<<"A", "b">>, FALSE, Data(y, 1)),
     E(<<"a", "b">>, TRUE, Data(x, 0)), E(<<"b">>, FALSE, Data(x, 1)),
     E(<<"aux">>, FALSE, Data(x, 1)),
     E(<<"task.json">>, FALSE, Json(Good, 1)), E(<<"task.json">>, TRUE, Data(x, 0)),
     [E(<<"b">>, FALSE, Data(x, 1)) EXCEPT !.link = TRUE],
     [E(<<"b">>, FALSE, Data(x, 1)) EXCEPT !.sound = FALSE]}

MCArchives ==
    (UNION {[1..n -> Entries] : n \in 0..3})
    \cup {<<E(<<"task.json">>, FALSE, Json(m, 1))>> : m \in MCManifests}
    \cup {<<E(<<"task.json">>, FALSE, Json(Good, 2))>>,
          <<E(<<"task.json">>, FALSE, Data(x, 1))>>,
          <<E(<<"task.json">>, FALSE, Json(Good, 1)), E(<<"b">>, FALSE, Data(x, 0)),
            E(<<"a", "b">>, FALSE, Data(x, 0)), E(<<"a", "a">>, FALSE, Data(x, 0))>>}

=============================================================================
