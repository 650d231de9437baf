---------------------------- MODULE MCConnectors ----------------------------
(* Small instances of Connectors for TLC.                                  *)
EXTENDS Connectors, TLC

CONSTANTS e1, e2, e3

(* Two elements share the first of three buckets.                          *)
ElemBuckets == (e1 :> 1) @@ (e2 :> 1) @@ (e3 :> 3)

Body(props, required) ==
  [mode |-> "expand", required |-> required, props |-> props, requiredProps |-> props]

WholeBody == [mode |-> "body", required |-> TRUE, props |-> {}, requiredProps |-> {}]

Operation(template, pathLevel, opLevel, body) ==
  [template |-> template, pathLevel |-> pathLevel, opLevel |-> opLevel, body |-> body]

(* An optional parameter made required; one name in path and query, and in *)
(* query and header; a property and a whole body under the name of a       *)
(* parameter; a path parameter that is not declared, one in a cookie.      *)
ApiOperations ==
  {Operation({"id"}, <<Parameter("id", "path", FALSE), Parameter("q", "query", FALSE)>>,
             <<Parameter("q", "query", TRUE)>>, Body({"body"}, FALSE)),
   Operation({"id"}, <<Parameter("id", "path", TRUE)>>, <<Parameter("id", "query", FALSE)>>,
             Body({"id", "body"}, TRUE)),
   Operation({}, <<Parameter("q", "query", FALSE), Parameter("q", "header", FALSE)>>,
             <<Parameter("body", "query", FALSE)>>, WholeBody),
   Operation({"id"}, <<Parameter("q", "cookie", TRUE)>>,
             <<[Parameter("body", "query", TRUE) EXCEPT !.ref = TRUE]>>, NoBody)}

RawBody(ref, content) == [ref |-> ref, required |-> TRUE, content |-> content]
Bare == RawBody(FALSE, <<>>)
Object(props) == [kind |-> "object", to |-> "", props |-> props, required |-> props]
Ref(name) == [NoSchema EXCEPT !.kind = "ref", !.to = name]
Raw(id, method, tags, body) == [id |-> id, method |-> method, tags |-> tags, body |-> body]
Doc(paths, schemas) == [loads |-> TRUE, paths |-> paths, schemas |-> schemas]

users == <<"users">>
user == <<"users", Tmpl>>
me == <<"users", "me">>

(* An id that is used twice, once for an operation that cannot be sent;    *)
(* bodies of two JSON types, one of which may not resolve, by reference,   *)
(* by a reference to a reference and to nothing; an operation without an   *)
(* id; a file that does not parse.                                         *)
ApiDocuments ==
  {Doc((users :> <<Raw("list", "GET", {}, Bare),
                   Raw("add", "POST", {"w"}, RawBody(FALSE, "text/xml" :> Object({"q"})))>>)
       @@ (user :> <<Raw("add", "PUT", {"w"}, Bare)>>) @@ (me :> <<>>), <<>>),
   Doc((users :> <<Raw("list", "GET", {}, Bare),
                   Raw("add", "POST", {"w"},
                       RawBody(FALSE, ("application/vnd.v1+json" :> Object({"q"}))
                                      @@ ("application/vnd.v2+json" :> Object({"body"}))))>>)
       @@ (user :> <<Raw("get", "GET", {}, Bare), Raw("", "DELETE", {}, Bare)>>)
       @@ (me :> <<Raw("self", "PUT", {},
                              RawBody(FALSE, ("application/vnd.v1+json" :> Object({"q"}))
                                             @@ ("application/vnd.v2+json" :> Ref("Gone"))))>>), <<>>),
   Doc((users :> <<Raw("a", "PUT", {}, RawBody(FALSE, "application/json" :> Ref("User"))),
                   Raw("b", "POST", {"w"}, RawBody(FALSE, "*/*" :> Ref("Alias")))>>)
       @@ (me :> <<Raw("c", "PUT", {"w"}, RawBody(TRUE, <<>>)),
                   Raw("d", "PATCH", {}, RawBody(FALSE, "application/json" :> Ref("Gone"))),
                   Raw("e", "DELETE", {}, RawBody(FALSE, "*/*" :> Ref("User")))>>),
       ("User" :> Object({"q"})) @@ ("Alias" :> Ref("User"))),
   [loads |-> FALSE, paths |-> <<>>, schemas |-> <<>>]}

AnyRule == [ids |-> {}, methods |-> {}, paths |-> {}, tags |-> {}]
Discovery(include, exclude) == [valid |-> TRUE, include |-> include, exclude |-> exclude]

ApiDiscoveries ==
  {Discovery({}, {}),
   Discovery({[AnyRule EXCEPT !.methods = {"GET", "PUT"}], [AnyRule EXCEPT !.tags = {"w"}]},
             {[AnyRule EXCEPT !.ids = {"a"}]}),
   Discovery({}, {[AnyRule EXCEPT !.paths = {me}, !.methods = {"GET"}]}),
   Discovery({AnyRule}, {AnyRule}),
   [Discovery({}, {}) EXCEPT !.valid = FALSE]}
=============================================================================
