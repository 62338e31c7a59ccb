---------------------------- MODULE MCConfigPass ----------------------------
(* Instances of ConfigPass for TLC.                                        *)
EXTENDS PassOutcome

MCMarks == {"$", "{", "}", "/", "-", ",", " ", "!", "*", "!none",
            "{{.Model}}", "{{.Container}}", "{{.Host}}", "{{.Instance}}",
            "{{.Nope}}"}
MCDigits == {"7", "_"}
MCLetters == {"a"}
MCSpecials == {"$", "!", "-", "*", "7"}
MCTemplates == Fields \cup {"{{.Nope}}"}
MCCredSuffix == "password_env" :> [key |-> "password", kind |-> "env"]
             @@ "password_file" :> [key |-> "password", kind |-> "file"]
MCUpper == "app" :> "APP" @@ "db" :> "DB" @@ "password" :> "PASSWORD"
        @@ "log" :> "LOG" @@ "databases" :> "DATABASES" @@ "my-db" :> "MY_DB"
        @@ "my_db" :> "MY_DB"
MCProtected == {"password"}
MCInts == {<<"90">>, <<"7">>}
MCBools == <<"true">> :> <<"true">> @@ <<"false">> :> <<"false">>
-----------------------------------------------------------------------------
(* A tree with these leaves.                                               *)
Tree(leaves) ==
  [p \in UNION {Above(q) \cup {q} : q \in DOMAIN leaves} |->
     IF p \in DOMAIN leaves THEN leaves[p] ELSE Map]
Part(labels, S) == [p \in DOMAIN labels \cap S |-> labels[p]]

Enabled == <<"enable">> :> <<"true">>
Named(text) == <<"name">> :> text
Local == <<"storages", "s", "type">> :> <<"local">>
LocalNode == <<"storages", "s", "type">> :> Text(<<"local">>)
Db(key, text) == <<"databases", "db", key>> :> text

NoMounts == [d \in {} |-> <<>>]
Container(id, name, labels, mounted, env) ==
  [id |-> id, name |-> name, labels |-> labels, mounts |-> mounted,
   env |-> env]
App(labels) == Container("c1", <<"app">>, labels, NoMounts, <<>>)
DbServer(labels) == Container("c2", <<"my-db">>, labels, NoMounts, <<>>)

World(bodies, containers) ==
  [managed |-> TRUE, exposed |-> FALSE, host |-> <<"h">>, instance |-> <<>>,
   profiles |-> bodies, containers |-> containers]
Default(leaves) == <<"default">> :> Tree(leaves)

(* Every short text, as a password and among the tables of a profile.      *)
Passwords ==
  {World(Default(LocalNode @@ (<<"databases", "db", "tables">> :>
                             List(<< <<"a">>, text>>))),
         <<App(Enabled @@ Db("password", text))>>) :
     text \in BoundedSeq({"$", "{", "}", "a", "7", "!"}, 4)}

(* Two clients over one profile, each with some of these labels.           *)
Overlays ==
  (<<"notifiers">> :> <<"!none">>) @@ (<<"notifiers", "n", "url">> :> <<"a">>)
    @@ (<<"storages", "s", "path">> :> <<"/", "{{.Model}}">>)
    @@ (<<"storages", "s">> :> <<"!none">>)
    @@ (<<"archive", "excludes">> :> <<"a", ",", " ", "db", " ", ",">>)
Shared ==
  Default(LocalNode
            @@ (<<"storages", "s", "keep">> :> Text(<<"90">>))
            @@ (<<"notifiers", "n", "type">> :> Text(<<"db">>)))
Merges ==
  {World(Shared, <<App(Enabled @@ Db("type", <<"db">>) @@ Db("port", <<"7">>)
                         @@ Part(Overlays, S)),
                   DbServer(Enabled @@ Db("type", <<"app">>))>>) :
     S \in SUBSET DOMAIN Overlays}

(* Scopes, profiles, defaults, templates and names that skip or rename.    *)
Skips ==
  {[World(Shared, <<App(Db("type", <<"{{.Nope}}">>) @@ Enabled),
                    DbServer(Db("type", <<"true">>) @@ labels),
                    Container("c3", <<"db">>, Enabled @@ Named(name)
                                @@ Db("port", <<"7">>), NoMounts, <<>>)>>)
     EXCEPT !.exposed = exposed, !.instance = <<"a">>, !.managed = exposed] :
       labels \in {<<>>, <<"enable">> :> <<"off">>,
                   <<"instance">> :> <<"7">>, <<"profile">> :> <<"7">>},
       name \in {<<>>, <<"db">>, <<"app", "-", "h">>,
                 <<"my-db", "-", "h">>},
       exposed \in BOOLEAN}

(* Archives and a sqlite database over mounts that may nest.               *)
Bind(path) == [type |-> "bind", name |-> <<>>, source |-> <<"/">> \o path]
Volume(name) == [type |-> "volume", name |-> <<name>>, source |-> <<"/">>]
Srv == <<"/", "srv">>
SrvData == Srv \o <<"/", "data">>
AllMounts == (Srv \o <<"/">> :> Volume("vol")) @@ (SrvData :> Bind(<<"d">>))
               @@ (<<"/", "data">> :> Volume("db"))
Paths == {Srv, SrvData, SrvData \o <<"/", "a", "/">>, <<"/", "data2">>,
          <<"/", "data", "/", "$", "7">>}
Stored(includes) ==
  Default(LocalNode
            @@ (<<"databases", "db", "type">> :> Text(<<"sqlite">>))
            @@ (<<"databases", "log", "type">> :> Text(<<"sqlite">>))
            @@ (Includes :> List(includes)))
Discoveries ==
  {World(Stored(includes),
     <<Container("c1", <<"app">>, Enabled @@ Db("path", path),
                 Part(AllMounts, S), <<>>)>>) :
     S \in SUBSET DOMAIN AllMounts, includes \in BoundedSeq(Paths, 2),
     path \in Paths}

(* Two models, of one name or not, over one volume or not; with a slash in *)
(* a name two volumes may be meant for one target.                         *)
DataDir == <<"/", "data">>
Neighbours ==
  {World(Stored(<<SrvData, DataDir>>),
     <<Container("c1", <<"app">>,
                 Enabled @@ Named(first) @@ db @@ (Excludes :> <<"a">>),
                 Part(AllMounts, {SrvData}), <<>>),
       Container("c2", <<"db">>,
                 Enabled @@ Named(second) @@ Db("port", <<"7">>),
                 Part((SrvData :> Bind(<<source>>))
                        @@ (DataDir :> Volume("app")), S), <<>>)>>) :
     db \in {Db("path", SrvData), Db("port", <<"7">>)},
     first \in {<<>>, <<"a">>}, second \in {<<>>, <<"a">>, <<"a">> \o Srv},
     source \in {"d", "app"}, S \in SUBSET {SrvData, DataDir}}

(* Credentials of two clients with names that sanitize alike, or not.      *)
Secret == <<"/", "run", "/", "secrets", "/", "db">>
Refs == {<<>>, <<"PW">>, Secret, <<"/", "run">>, <<"/", "tmp", "/", "a">>,
         <<"/", "data", "/", "a">>}
Password(key, ref) == Db("password" \o key, ref)
Holder(id, name, labels, value) ==
  Container(id, name, Enabled @@ Local @@ labels,
    (Secret :> Bind(<<value>>)) @@ (<<"/", "data">> :> Volume("vol"))
      @@ (<<"/", "tmp">> :> [type |-> "tmpfs", name |-> <<>>,
                             source |-> <<>>]),
    <<"PW">> :> <<value>>)
Secrets ==
  {World(<<>>, <<Holder("c1", name, Password(k, r), "a"),
                 Holder("c2", <<"my-db">>, Password(l, q) @@ more, "7")>>) :
     name \in {<<"app">>, <<"my_db">>},
     k \in {"_env", "_file"}, r \in Refs,
     l \in {"_env", "_file"}, q \in {<<"PW">>, Secret},
     more \in {<<>>, Db("password", <<"a">>), Db("password_env", <<"PW">>)}}

(* One model with two sqlite databases and two secrets: their mounts and   *)
(* exports come in any order.                                              *)
Key == <<"/", "run", "/", "secrets", "/", "app">>
Log(key, text) == <<"databases", "log", key>> :> text
Doubles ==
  {World(Stored(<<SrvData>>),
     <<Container("c1", <<"app">>,
         Enabled @@ Db("path", path) @@ Log("path", other)
           @@ Password("_file", ref) @@ Log("password_file", Secret),
         Part(AllMounts, S) @@ (Secret :> Bind(<<"a">>))
           @@ (Key :> Bind(<<"7">>)), <<>>)>>) :
     S \in SUBSET DOMAIN AllMounts, ref \in {Secret, Key},
     path \in {Srv, SrvData}, other \in {SrvData, <<"/", "data", "/", "a">>}}

MCWorlds == Passwords \cup Merges \cup Skips \cup Discoveries
              \cup Neighbours \cup Secrets \cup Doubles
=============================================================================
