---------------------------- MODULE OpenApiTool ----------------------------
(***************************************************************************)
(* An OpenAPI operation as a tool: its parameters merged, its body         *)
(* projected into arguments (buildToolMeta), and the HTTP request a call   *)
(* with arguments makes of it (Registry.Call).                             *)
(*                                                                         *)
(* An operation is a record: template, the names that fill a segment of    *)
(* its path; pathLevel and opLevel, sequences of parameters; body, what    *)
(* projectRequestBody makes of the request body.  An argument is absent,   *)
(* null, a blank string, a plain value, or special: a value with a         *)
(* character that means something in a URL.                                *)
(***************************************************************************)
EXTENDS Naturals, SequencesExt

Locations == {"path", "query", "header"}
NoBody == [mode |-> "none", required |-> FALSE, props |-> {}, requiredProps |-> {}]

Parameter(name, in, required) ==
  [name |-> name, in |-> in, required |-> required, ref |-> FALSE]

SamePlace(p, q) == p.in = q.in /\ p.name = q.name

(* References, cookies and unknown locations are skipped.                  *)
Supported(p) == ~p.ref /\ p.in \in Locations

(* A parameter of the path is required whatever it says.                   *)
AsMerged(p) == [p EXCEPT !.required = @ \/ p.in = "path"]

(* Mutant of AddParameter: the first declaration of a parameter stands.    *)
AddParameterOnce(merged, p) ==
  IF ~Supported(p) \/ \E i \in DOMAIN merged : SamePlace(merged[i], p) THEN merged
  ELSE Append(merged, AsMerged(p))

(* A parameter replaces the one declared before it for the same place.     *)
AddParameter(merged, p) ==
  IF ~Supported(p) THEN merged
  ELSE IF \E i \in DOMAIN merged : SamePlace(merged[i], p)
    THEN [i \in DOMAIN merged |-> IF SamePlace(merged[i], p) THEN AsMerged(p) ELSE merged[i]]
    ELSE Append(merged, AsMerged(p))

MergeParameters(pathLevel, opLevel) == FoldLeft(AddParameter, <<>>, pathLevel \o opLevel)

(* The location of each argument is that of the last parameter with its    *)
(* name; a body that is no object is the argument "body", a body property  *)
(* that a parameter has the name of is no argument.                        *)
BuildToolMeta(o) ==
  LET params == MergeParameters(o.pathLevel, o.opLevel)
      names == {params[i].name : i \in DOMAIN params}
      whole == IF o.body.mode = "body" THEN {"body"} ELSE {}
      bodyProps == IF o.body.mode = "expand" THEN o.body.props \ names ELSE {}
      last(n) == params[SelectLastInSeq(params, LAMBDA p : p.name = n)].in
  IN [template |-> o.template,
      paramIns |-> [n \in names \cup whole |-> IF n \in whole THEN "body" ELSE last(n)],
      required |-> {params[i].name : i \in {j \in DOMAIN params : params[j].required}}
                   \cup (o.body.requiredProps \cap bodyProps)
                   \cup (IF o.body.required THEN whole ELSE {}),
      mode |-> o.body.mode,
      bodyRequired |-> o.body.required,
      bodyProps |-> bodyProps]

-----------------------------------------------------------------------------
Given(args, n) == args[n] \notin {"absent", "null"}

(* A blank string is refused only for a path parameter.                    *)
ValidateArgs(tool, args) ==
  \A n \in tool.required :
    /\ Given(args, n)
    /\ ~(args[n] = "blank" /\ n \in DOMAIN tool.paramIns /\ tool.paramIns[n] = "path")

FillPath(tool, args) == \A n \in tool.template : Given(args, n)

PlainPath(tool, args) == \A n \in tool.template : args[n] # "special"

(* The arguments stand in the path as they are, and http.Do parses it with *)
(* the base URL in front: after '?', '#' or '/' in one of them, it and     *)
(* those behind may be in no segment of their own any more, and there may  *)
(* be a query that is no argument's.                                       *)
ParsedPaths(tool, args) ==
  IF PlainPath(tool, args) THEN {[path |-> tool.template, stray |-> FALSE]}
  ELSE [path : SUBSET tool.template, stray : BOOLEAN]

(* Arguments that are null are left out of the query and the headers, but  *)
(* stand in the body as they are.                                          *)
BuildRequest(tool, args, parsed) ==
  LET in(place) == {n \in DOMAIN tool.paramIns : tool.paramIns[n] = place /\ Given(args, n)}
      props == {n \in tool.bodyProps : args[n] # "absent"}
  IN [path |-> parsed.path,
      stray |-> parsed.stray,
      query |-> in("query"),
      header |-> in("header"),
      body |-> CASE tool.mode = "none" -> {}
                 [] tool.mode = "body" -> in("body")
                 [] tool.mode = "expand" -> props,
      hasBody |-> CASE tool.mode = "none" -> FALSE
                    [] tool.mode = "body" -> Given(args, "body")
                    [] tool.mode = "expand" -> props # {} \/ tool.bodyRequired]
=============================================================================
