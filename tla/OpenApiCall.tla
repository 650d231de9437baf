---------------------------- MODULE OpenApiCall ----------------------------
(***************************************************************************)
(* A call of an OpenAPI tool: Registry.Call turns the arguments into a     *)
(* request and reads the service's time-out; http.Do then looks the        *)
(* service up again for its base URL.                                      *)
(***************************************************************************)
EXTENDS HttpDocker, OpenApiTool

CONSTANTS Operations,  \* operations of OpenAPI documents
          ArgNames     \* names of arguments a caller may give

Parameters == [name : ArgNames, in : STRING, required : BOOLEAN, ref : BOOLEAN]

(* What projectRequestBody makes of a body has properties only where they  *)
(* are expanded.                                                           *)
Bodies == [mode : {"none", "body", "expand"}, required : BOOLEAN,
           props : SUBSET ArgNames, requiredProps : SUBSET ArgNames]

ASSUME OperationsAssumption ==
  /\ "body" \in ArgNames
  /\ \A o \in Operations :
       /\ o.template \subseteq ArgNames
       /\ o.pathLevel \in Seq(Parameters) /\ o.opLevel \in Seq(Parameters)
       /\ o.body \in Bodies /\ (o.body.mode # "expand" => o.body.props = {})

(* Blank and special strings differ from another one only in a path: what  *)
(* stands in a query is encoded.                                           *)
Arguments(o) ==
  {args \in [ArgNames -> {"absent", "null", "blank", "value", "special"}] :
     \A n \in ArgNames : args[n] \in {"blank", "special"} => n \in o.template}

BeginOpenApi ==
  \E o \in Operations : \E tool \in {BuildToolMeta(o)} : \E args \in Arguments(o) :
    Begin("openapi", 0, "lookup", [operation |-> o, tool |-> tool, args |-> args], Nothing)

(* A time-out of none means the default of plugins.  got is the request as *)
(* http.Do sends it, if the URL parses.                                    *)
PrepareRequest ==
  /\ op = "openapi" /\ pc = "lookup"
  /\ LET tool == remote.tool
         args == remote.args
         valid == ValidateArgs(tool, args) /\ FillPath(tool, args)
     IN \/ ~valid /\ Answer("lookup", "INVALID_PARAMS") /\ UNCHANGED <<limit, got>>
        \/ /\ valid /\ entry = Absent
           /\ Answer("lookup", "CONNECTOR_ERROR") /\ UNCHANGED <<limit, got>>
        \/ /\ valid /\ entry # Absent
           /\ Goto("lookup", "resolve")
           /\ \E parsed \in ParsedPaths(tool, args) : got' = BuildRequest(tool, args, parsed)
           /\ limit' = entry.limit
           /\ UNCHANGED code
  /\ UNCHANGED <<request, config, client, remote>>

-----------------------------------------------------------------------------
(* What the document declares: the places of an argument, whatever the     *)
(* order of the declarations; and what must be given, of the declarations  *)
(* for one place by the last one, those of the operation coming after      *)
(* those of the path.                                                      *)
Declared(o) == o.pathLevel \o o.opLevel

Places(o, n) ==
  {p.in : p \in {q \in Range(Declared(o)) : Supported(q) /\ q.name = n}}
  \cup (IF n \in o.body.props \/ (o.body.mode = "body" /\ n = "body") THEN {"body"} ELSE {})

Stands(ps, i) ==
  /\ Supported(ps[i])
  /\ \A j \in DOMAIN ps : j > i /\ Supported(ps[j]) => ~SamePlace(ps[j], ps[i])

MustBeGiven(o) ==
  LET ps == Declared(o)
  IN {ps[i].name : i \in {j \in DOMAIN ps : Stands(ps, j) /\ AsMerged(ps[j]).required}}
     \cup {n \in o.body.requiredProps \cap o.body.props : Places(o, n) = {"body"}}

(* What goes out for an OpenAPI tool is what its document declares: every  *)
(* required argument is there, an argument that one place is declared for  *)
(* is sent in that place, no argument is sent in two of query, headers and *)
(* body, and nothing is sent that nobody gave or declared.  The path has   *)
(* all its arguments, each in its segment, and brings no query, as long as *)
(* none of them is special.  (A name declared for several places is sent   *)
(* in at most one of the three, and in the path too if that has a segment  *)
(* of its name.)                                                           *)
RequestFaithful ==
  (op = "openapi" /\ pc = "exchange") =>
    LET o == remote.operation
        args == remote.args
        plain == \A n \in o.template : args[n] # "special"
        sent == [path |-> got.path, query |-> got.query, header |-> got.header, body |-> got.body]
    IN /\ \A n \in MustBeGiven(o) : Given(args, n)
       /\ plain => o.template \subseteq got.path /\ ~got.stray
       /\ \A n \in ArgNames : Given(args, n) =>
            \A place \in Places(o, n) \ {"path"} : Places(o, n) = {place} => n \in sent[place]
       /\ \A place \in DOMAIN sent : \A n \in sent[place] :
            /\ args[n] # "absent"
            /\ place \in Places(o, n) \/ (place = "path" /\ n \in o.template)
       /\ got.query \cap got.header = {}
       /\ got.body \cap (got.query \cup got.header) = {}
       /\ (o.body.required /\ o.body.mode # "none") => got.hasBody
=============================================================================
