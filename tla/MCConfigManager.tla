-------------------------- MODULE MCConfigManager --------------------------
(* Small instances of ConfigManager for TLC.  Names are 1 to 3.            *)
EXTENDS ConfigManager, TLC

File(entries) == [state |-> "present", entries |-> entries]
Missing == [state |-> "missing", entries |-> <<>>]
Unreadable == [state |-> "unreadable", entries |-> <<>>]

Host(name, port) == [name |-> name, port |-> port]
Database(name, type, limit) == [name |-> name, type |-> type, limit |-> limit, port |-> 0]
Redis(name, limit) == [name |-> name, limit |-> limit, port |-> 0]
Kafka(name, brokers) == [name |-> name, limit |-> 0, brokers |-> brokers]
API(name, path, header) == [name |-> name, path |-> path, baseURL |-> "set", header |-> header]
Command(name, paths) == [name |-> name, paths |-> paths]

Auth(version, level, has) == [version |-> version, level |-> level, has |-> has]
V2 == Auth("2c", "", {"community"})
Credential(name, auth) == [name |-> name, auth |-> auth]
Device(name, credential, auth, labels) ==
  [name |-> name, host |-> TRUE, port |-> 0, credential |-> credential, auth |-> auth,
   labels |-> labels]
SNMP(credentials, devs) ==
  [state |-> "present", credentials |-> credentials, devices |-> devs,
   defaults |-> [NoDefaults EXCEPT !.timeout = "0s", !.retries = 3, !.walkMaxOIDs = -1]]
NoSNMP(state) == [SNMP(<<>>, <<>>) EXCEPT !.state = state]

core == [role |-> "core"]

InitialFiles ==
  [hosts |-> File(<<Host(1, 0), Host(2, 2022)>>),
   databases |-> File(<<Database(1, "mysql", 5)>>),
   redis |-> Missing,
   kafka |-> File(<<Kafka(1, 1)>>),
   apis |-> File(<<API(1, "text", "")>>),
   commands |-> File(<<Command(1, <<"/bin/a">>)>>),
   snmp |-> SNMP(<<Credential(1, V2)>>, <<Device(1, 1, NoAuth, core)>>)]

EditedFiles ==
  [hosts |-> {Missing, File(<<Host(0, 22)>>), File(<<Host(2, 0), Host(1, 0), Host(2, 23)>>),
              File(<<Host(3, 0)>>)},
   databases |-> {Missing, File(<<Database(2, "postgresql", 0), Database(1, "other", -1)>>)},
   redis |-> {File(<<Redis(1, -1), Redis(2, 7)>>), Unreadable},
   kafka |-> {File(<<Kafka(1, 2), Kafka(2, 0)>>), File(<<Kafka(2, 1)>>)},
   apis |-> {File(<<API(1, "set", ""), API(2, "text", "unset")>>), File(<<API(1, "blank", "")>>),
             File(<<API(2, "set", "blank")>>)},
   commands |-> {File(<<Command(1, <<"gone">>), Command(1, <<"blank", "gone", "/bin/b">>)>>),
                 File(<<Command(1, <<"/bin/a">>), Command(1, <<"gone">>)>>),
                 File(<<Command(1, <<"/bin/a", "relative">>)>>), File(<<Command(2, <<"blank">>)>>)},
   snmp |-> {NoSNMP("missing"), NoSNMP("unreadable"),
             SNMP(<<Credential(1, V2)>>, <<Device(1, 2, NoAuth, core)>>),
             SNMP(<<Credential(1, Auth("3", "authpriv", {"username", "auth_password"}))>>, <<>>),
             SNMP(<<Credential(2, Auth("3", "authnopriv", {"username", "auth_password"}))>>,
                  <<Device(3, 2, NoAuth, core), Device(2, 0, V2, <<>>),
                    Device(1, 2, NoAuth, [role |-> "edge"])>>),
             SNMP(<<Credential(1, V2)>>, <<Device(1, 1, V2, core)>>),
             SNMP(<<>>, <<Device(1, 0, Auth("1", "", {"community"}), core)>>)}]
=============================================================================
