------------------------------ MODULE MCImport ------------------------------
(***************************************************************************)
(* A small instance of Import for TLC: a checkout "p" in two states, a     *)
(* conversation export with a message listed twice, and an archive with    *)
(* mail, a conversation and a Drive root.                                  *)
(***************************************************************************)
EXTENDS Import

MCPaths == {"notes.md", "cache.md", "logo.md", "export.json", "mail.mbox", "Drive/a.md"}
MCDrive == {"Drive/a.md"}

MCFile(path, kind, body) == [path |-> path, kind |-> kind, body |-> body, ignored |-> FALSE]

Draft == MCFile("notes.md", "text", <<"x", "y">>)
Revised == MCFile("notes.md", "text", <<"x", "z">>)
\* Above the limit, and not tracked by git.
Cache == [MCFile("cache.md", "text", <<"x", "y", "z">>) EXCEPT !.ignored = TRUE]
Logo == MCFile("logo.md", "binary", <<"x">>)
Export == MCFile("export.json", "chat", <<"x", "x">>)
Mailbox == MCFile("mail.mbox", "mail", <<"x", "y">>)
TakeoutFile == MCFile("Drive/a.md", "text", <<"x">>)

MCSource(name, layout, members) == [name |-> name, layout |-> layout, members |-> members]

MCSources == {
  MCSource("p", "tree", {Draft, Cache}),
  MCSource("p", "tree", {Revised, Logo}),
  MCSource("export.json", "file", {Export}),
  MCSource("d", "zip", {Mailbox, Export, TakeoutFile})}

=============================================================================
