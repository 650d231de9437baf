----------------------------- MODULE ToolTable -----------------------------
(***************************************************************************)
(* What an MCP client may rely on: every tool name is bound to at most one *)
(* implementation, a disk plugin or an OpenAPI operation.  A reload        *)
(* replaces all the bindings of one kind at once and leaves those of the   *)
(* other kind alone; it never takes a name over from the other kind.       *)
(*                                                                         *)
(* Reload.tla is the implementation: it keeps two tables, filled by two    *)
(* components that check each other's names before they commit.            *)
(***************************************************************************)
CONSTANTS Names,     \* tool names
          Plugins,   \* what a name of kind "plugin" may be bound to
          Services,  \* what a name of kind "api" may be bound to
          None       \* the target of a name that is not bound

VARIABLE binding     \* binding[n] = <<kind, target>>

Binding == ({"plugin"} \X Plugins) \cup ({"api"} \X Services)
             \cup {<<"none", None>>}

Kind(b) == b[1]

TypeOK == binding \in [Names -> Binding]

Init == TypeOK

(* The bindings of one kind are replaced; a name of another kind keeps its *)
(* binding and is not taken over.                                          *)
Replace(kind) ==
  /\ binding' \in [Names -> Binding]
  /\ \A n \in Names :
        (Kind(binding[n]) \notin {kind, "none"} \/ Kind(binding'[n]) \notin {kind, "none"})
           => binding'[n] = binding[n]

Next == \E kind \in {"plugin", "api"} : Replace(kind)

Spec == Init /\ [][Next]_binding
=============================================================================
