---------------------------- MODULE MCWorkspace -----------------------------
(* Two texts, names that change on their way into an envelope, and folders. *)
EXTENDS Workspace, TLC

MCInputs == {Text("A", 2), Text("B", 1), Text("E", 0)}

\* Nothing left; a control character before a blank; more bytes than fit, the
\* last of them half a character; cut behind a blank.
MCFilenames == {<<"/", " ">>, <<"^", " ", "a">>, <<"u", "u">>, <<"u", " ", "b">>}
MCMaxName == 3

\* Settled, refused, and not settled.
MCPaths == {<<"d", ".", "a">>, <<"d", "..", "a">>, <<".", "C:">>}
MCMagics == {Tag("AFC2"), Tag("AFC3")}

Symmetry == Permutations(Threads)
=============================================================================
