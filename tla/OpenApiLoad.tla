---------------------------- MODULE OpenApiLoad ----------------------------
(***************************************************************************)
(* Registry.Load for one API service: its document is read, its operations *)
(* are extracted in whatever order Go walks the map of paths, their bodies *)
(* projected, and those that discovery exposes become tools.  (Module      *)
(* Reload has the services together, the reserved names and the commit.)   *)
(*                                                                         *)
(* A document is a function from paths, sequences of segments, to the      *)
(* operations of the path in the order of httpMethods, and one from names  *)
(* to schemas.  Regular expressions and globs of discovery are left out: a *)
(* rule lists operation ids, methods, tags, and paths whose segments may   *)
(* be templates.                                                           *)
(***************************************************************************)
EXTENDS ConnectorCall, OpenApiTool

CONSTANTS Documents,   \* what the file of a document may hold
          Discoveries  \* include and exclude rules a service may have

(* The operations of a path are a sequence.                                *)
ASSUME DocumentsAssumption ==
  \A doc \in Documents : \A path \in DOMAIN doc.paths :
    doc.paths[path] \in Seq(Range(doc.paths[path]))

NoSchema == [kind |-> "none", to |-> "", props |-> {}, required |-> {}]
Tmpl == "{}"  \* a segment that is a parameter

BeginLoad ==
  \E doc \in Documents, d \in Discoveries :
    Begin("openapi.load", 0, "load", [doc |-> doc, discovery |-> d],
          [unread |-> DOMAIN doc.paths, ops |-> <<>>])

-----------------------------------------------------------------------------
(* The media types a body may be taken from: the plain ones first, else    *)
(* any that is JSON, whichever the map of media types yields.              *)
PickJSONMedia(content) ==
  LET usable == {m \in DOMAIN content : content[m].kind # "none"}
  IN IF "application/json" \in usable THEN {"application/json"}
     ELSE IF "*/*" \in usable THEN {"*/*"}
     ELSE usable \cap {"application/vnd.v1+json", "application/vnd.v2+json"}

(* A reference is followed once.                                           *)
ResolveSchema(schema, schemas) ==
  IF schema.kind # "ref" THEN schema
  ELSE IF schema.to \in DOMAIN schemas THEN schemas[schema.to] ELSE NoSchema

(* An object is expanded into its properties; an operation is skipped      *)
(* whose body is a reference, no JSON or has no schema.                    *)
ProjectRequestBody(body, schemas) ==
  LET project(schema) ==
        IF schema.kind = "none" THEN [skip |-> TRUE, body |-> NoBody]
        ELSE [skip |-> FALSE,
              body |-> IF schema.kind = "object"
                         THEN [mode |-> "expand", required |-> body.required,
                               props |-> schema.props, requiredProps |-> schema.required]
                         ELSE [NoBody EXCEPT !.mode = "body", !.required = body.required]]
      media == PickJSONMedia(body.content)
  IN IF body.ref THEN {[skip |-> TRUE, body |-> NoBody]}
     ELSE IF DOMAIN body.content = {} THEN {[skip |-> FALSE, body |-> NoBody]}
     ELSE IF media = {} THEN {[skip |-> TRUE, body |-> NoBody]}
     ELSE {project(ResolveSchema(body.content[m], schemas)) : m \in media}

(* Mutant of Duplicate: an operation that is skipped frees its id.         *)
DuplicateOfKept(ops, id) == \E i \in DOMAIN ops : ops[i].id = id /\ ops[i].skip = "no"

(* Was this id seen before, whatever became of the operation?              *)
Duplicate(ops, id) == \E i \in DOMAIN ops : ops[i].id = id

(* The next operation of a path, with one of the bodies it may have.       *)
Extract(ops, path, raw, projected) ==
  LET skip == IF Duplicate(ops, raw.id) THEN "duplicate"
              ELSE IF projected.skip THEN "body" ELSE "no"
  IN IF raw.id = "" THEN ops
     ELSE Append(ops, [id |-> raw.id, method |-> raw.method, path |-> path, tags |-> raw.tags,
                       skip |-> skip, body |-> IF skip = "no" THEN projected.body ELSE NoBody])

(* All of them, in the order of httpMethods.                               *)
ExtractPath(ops, path, items, choice) ==
  FoldLeft(LAMBDA found, i : Extract(found, path, items[i], choice[i]),
           ops, [i \in DOMAIN items |-> i])

(* extractOperations: one path of the document.                            *)
ReadPath ==
  /\ op = "openapi.load" /\ pc = "load" /\ remote.doc.loads /\ remote.discovery.valid
  /\ \E path \in got.unread :
       LET items == remote.doc.paths[path]
           bodies(i) == ProjectRequestBody(items[i].body, remote.doc.schemas)
       IN \E choice \in {c \in [DOMAIN items -> UNION {bodies(i) : i \in DOMAIN items}] :
                           \A i \in DOMAIN items : c[i] \in bodies(i)} :
            got' = [unread |-> got.unread \ {path},
                    ops |-> ExtractPath(got.ops, path, items, choice)]
  /\ UNCHANGED <<pc, request, config, limit, client, remote, code>>

-----------------------------------------------------------------------------
(* Segment by segment; a parameter on either side matches anything.        *)
MatchTemplateOrExact(pattern, path) ==
  /\ Len(pattern) = Len(path)
  /\ \A i \in DOMAIN path : pattern[i] = Tmpl \/ path[i] = Tmpl \/ pattern[i] = path[i]

(* The fields of a rule that are there must all match; a rule without any  *)
(* matches everything.                                                     *)
RuleMatches(rule, o) ==
  /\ rule.ids # {} => o.id \in rule.ids
  /\ rule.methods # {} => o.method \in rule.methods
  /\ rule.paths # {} => \E p \in rule.paths : MatchTemplateOrExact(p, o.path)
  /\ rule.tags # {} => o.tags \cap rule.tags # {}

Exposed(d, o) ==
  /\ d.include # {} => \E r \in d.include : RuleMatches(r, o)
  /\ \A r \in d.exclude : ~RuleMatches(r, o)

(* A duplicate fails the load, exposed or not; a rule that does not        *)
(* compile does so before.                                                 *)
RegistryLoad ==
  /\ op = "openapi.load" /\ pc = "load"
  /\ \/ /\ ~remote.doc.loads \/ ~remote.discovery.valid
        /\ Answer("load", "CONNECTOR_ERROR") /\ UNCHANGED got
     \/ /\ remote.doc.loads /\ remote.discovery.valid /\ got.unread = {}
        /\ \/ /\ \E i \in DOMAIN got.ops : got.ops[i].skip = "duplicate"
              /\ Answer("load", "CONNECTOR_ERROR") /\ UNCHANGED got
           \/ /\ \A i \in DOMAIN got.ops : got.ops[i].skip # "duplicate"
              /\ Answer("load", "ok")
              /\ got' = [tools |-> {[id |-> o.id, body |-> o.body] :
                                      o \in {p \in Range(got.ops) :
                                               p.skip = "no" /\ Exposed(remote.discovery, p)}}]
  /\ UNCHANGED <<request, config, limit, client, remote>>

LoadStep == ReadPath \/ RegistryLoad

-----------------------------------------------------------------------------
(* A body that docs/apis.md:295 gives no tool, and the code does: of any   *)
(* media type without being an object, or of a JSON media type other than  *)
(* application/json.                                                       *)
Disputed(body, schemas) ==
  LET media == PickJSONMedia(body.content)
  IN \/ media = {"*/*"} /\ ResolveSchema(body.content["*/*"], schemas).kind # "object"
     \/ ~(media \subseteq {"application/json", "*/*"})

(* The tools of a service do not depend on the order in which its document *)
(* is walked: two operations of one id fail the load, wherever they stand  *)
(* and whether or not they are exposed; else the tools are, each with a    *)
(* body it may have, the operations that have an id and a body of a kind   *)
(* that can be sent, and that discovery includes and does not exclude.     *)
(* Whether one with a disputed body is a tool is left open.                *)
ToolsExact ==
  (op = "openapi.load" /\ pc = "done") =>
    LET doc == remote.doc
        raw(path, i) == doc.paths[path][i]
        bodies(path, i) == ProjectRequestBody(raw(path, i).body, doc.schemas)
        chosen(path, i) ==
          /\ raw(path, i).id # ""
          /\ Exposed(remote.discovery, [id |-> raw(path, i).id, method |-> raw(path, i).method,
                                        path |-> path, tags |-> raw(path, i).tags])
        clash == \E path, other \in DOMAIN doc.paths :
                   \E i \in DOMAIN doc.paths[path], j \in DOMAIN doc.paths[other] :
                     /\ path # other \/ i # j
                     /\ raw(path, i).id = raw(other, j).id /\ raw(path, i).id # ""
    IN IF doc.loads /\ remote.discovery.valid /\ ~clash
         THEN /\ code = "ok"
              /\ \A path \in DOMAIN doc.paths : \A i \in DOMAIN doc.paths[path] :
                   /\ chosen(path, i) /\ ~Disputed(raw(path, i).body, doc.schemas)
                   /\ \A b \in bodies(path, i) : ~b.skip
                   => \E t \in got.tools : t.id = raw(path, i).id
              /\ \A t \in got.tools :
                   \E path \in DOMAIN doc.paths : \E i \in DOMAIN doc.paths[path] :
                     /\ chosen(path, i)
                     /\ \E b \in bodies(path, i) :
                          ~b.skip /\ t = [id |-> raw(path, i).id, body |-> b.body]
              /\ \A t, u \in got.tools : t.id = u.id => t = u
         ELSE code = "CONNECTOR_ERROR"
=============================================================================
