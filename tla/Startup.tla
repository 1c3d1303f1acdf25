------------------------------ MODULE Startup ------------------------------
(***************************************************************************)
(* How the server starts (main.c): it loads the ini file, sets its limits  *)
(* and goes to the background (daemon.c), reads the bind file (bindconf.c) *)
(* and the plugin (dll.c) and then runs.  Nothing main calls on the way is *)
(* asked whether it succeeded.                                             *)
(***************************************************************************)
EXTENDS IniFile, BindFile

CONSTANTS BindLines,       \* the lines a bind file may have
          UserKeys,        \* entries a plugin changes in the dictionary
          UserValues,      \* the values it gives them
          max_listen_fds,  \* the length of bindconf.configs
          MaxOps           \* bound: changes of the dictionary while running

ASSUME StartupAssumption ==
  /\ max_listen_fds \in Nat /\ MaxOps \in Nat
  /\ BindLines \subseteq Seq({" ", "#", "x"})
  /\ \A k \in UserKeys : LowerKey(k) \in Keys
  /\ UserValues \subseteq Values \cup {NULL}

VARIABLES
  conf,            \* the settings in effect, NULL for the default
  bline, fields,   \* the line of the bind file, what str_split returned
  bind_num,
  handle,          \* dll.handle: "null", "open"
  fns,             \* the functions of dll that are set
  opened,          \* how often the plugin was opened minus how often closed
  ops

bindvars == <<bline, fields, bind_num>>
plugin   == <<handle, fns, opened>>
vars     == <<dict, at, inivars, conf, bindvars, plugin, ops>>

(* The key each setting is asked for with. *)
Asked ==
  [max_open_fd         |-> <<"max_open_fd">>,
   run_mode            |-> <<"run_mode">>,
   bind_conf           |-> <<"server", "bind_conf">>,
   send_buf_limit_size |-> <<"server", "send_buf_limit_size">>,
   dll_file            |-> <<"server", "dll_file">>]

Settings == DOMAIN Asked

(* The functions a plugin must have, in the order they are looked up. *)
Required == <<"get_pkg_len", "proc_pkg_from_client", "proc_pkg_from_serv",
              "on_client_conn_closed", "on_fd_closed">>

FirstRequired(m) == {Required[i] : i \in 1 .. m}

Init ==
  /\ InitIni
  /\ conf = [s \in Settings |-> NULL]
  /\ bline = <<>> /\ fields = <<>> /\ bind_num = 0
  /\ handle = "null" /\ fns = {} /\ opened = 0 /\ ops = 0

LoadFile == Load /\ UNCHANGED <<conf, bindvars, plugin, ops>>

Effective(s) == GetString(Asked[s], NULL)

(* rlimit_reset and daemon_start.  iniparser_getint of a key whose value   *)
(* is NULL, a section of that name, hands NULL to strtol.                  *)
DaemonStart ==
  /\ at = "daemon"
  /\ at' = IF FindEntry(Asked["max_open_fd"]) /\ Effective("max_open_fd") = NULL
             THEN "crashed" ELSE "bind"
  /\ conf' = [conf EXCEPT !["max_open_fd"] = Effective("max_open_fd"),
                          !["run_mode"] = Effective("run_mode"),
                          !["bind_conf"] = Effective("bind_conf")]
  /\ UNCHANGED <<dict, inivars, bindvars, plugin, ops>>

(* load_bind_file, line by line; each is split in place.  A line without a *)
(* newline leaves NULL for the next one to start after.                    *)
BindLine(l, newline) ==
  /\ at = "bind" /\ conf["bind_conf"] # NULL /\ (newline \/ l # <<>>)
  /\ bline' = l
  /\ fields' = IF l # <<>> /\ l[1] = "#" THEN <<>> ELSE Fields(l)
  /\ LET entry == Len(fields') = FieldNum
     IN  /\ bind_num' = IF entry THEN bind_num + 1 ELSE bind_num
         /\ at' = CASE entry /\ bind_num >= max_listen_fds -> "undefined"
                    [] ~newline -> "crashed"
                    [] OTHER -> "bind"
  /\ UNCHANGED <<dict, inivars, conf, plugin, ops>>

(* The end of the file, or a file that cannot be mapped; then the settings *)
(* that main reads itself.                                                 *)
BindEnds ==
  /\ at = "bind" /\ at' = "plugin"
  /\ bline' = <<>> /\ fields' = <<>>
  /\ conf' = [conf EXCEPT
       !["send_buf_limit_size"] = Effective("send_buf_limit_size"),
       !["dll_file"] = Effective("dll_file")]
  /\ UNCHANGED <<dict, inivars, bind_num, plugin, ops>>

(* Mutant of DlsymFails: the handle is kept. *)
DlsymFailsKeeping == opened' = 0 /\ handle' = "open"

(* A required function is missing: dlclose. *)
DlsymFails == opened' = 0 /\ handle' = "null"

(* register_plugin.  The file may have no init_service, or lack one of the *)
(* required functions; those set before it stay set.  Without a file name  *)
(* dlopen opens the program itself, which has none of them.                *)
RegisterPlugin ==
  /\ at = "plugin" /\ at' = "init"
  /\ \/ conf["dll_file"] # NULL /\ handle' = "null" /\ UNCHANGED <<fns, opened>>
     \/ \E optional \in SUBSET {"init_service"} :
          /\ conf["dll_file"] # NULL
          /\ handle' = "open" /\ opened' = 1 /\ fns' = optional \cup Range(Required)
     \/ \E optional \in SUBSET {"init_service"}, m \in 0 .. Len(Required) - 1 :
          /\ conf["dll_file"] = NULL => optional = {} /\ m = 0
          /\ DlsymFails /\ fns' = optional \cup FirstRequired(m)
  /\ UNCHANGED <<dict, inivars, conf, bindvars, ops>>

(* net_init and init_service, which may be a function of a library that    *)
(* was closed again; its failure is only logged.                           *)
InitService ==
  /\ at = "init"
  /\ at' = IF "init_service" \in fns /\ handle = "null" THEN "crashed" ELSE "running"
  /\ UNCHANGED <<dict, inivars, conf, bindvars, plugin, ops>>

(* A plugin shares the dictionary of the server and may change it. *)
Change ==
  /\ at = "running" /\ handle = "open" /\ ops < MaxOps /\ ops' = ops + 1
  /\ \E k \in UserKeys : IniUnset(k) \/ \E v \in UserValues : IniSet(k, v)
  /\ UNCHANGED <<at, inivars, conf, bindvars, plugin>>

(* mem_double finds no memory for it: arrays are NULL that the next use of *)
(* the dictionary reads.                                                   *)
ChangeFails ==
  /\ at = "running" /\ handle = "open" /\ ops < MaxOps /\ ops' = ops + 1
  /\ ini /\ \E k \in UserKeys : CannotGrow(LowerKey(k))
  /\ at' = "crashed"
  /\ UNCHANGED <<dict, inivars, conf, bindvars, plugin>>

(* unregister_plugin, when the server ends. *)
Shutdown ==
  /\ at = "running" /\ at' = "stopped"
  /\ IF handle = "open" THEN handle' = "null" /\ opened' = opened - 1
                        ELSE UNCHANGED <<handle, opened>>
  /\ UNCHANGED <<dict, inivars, conf, bindvars, fns, ops>>

Next ==
  \/ LoadFile \/ DaemonStart
  \/ \E l \in BindLines, newline \in BOOLEAN : BindLine(l, newline)
  \/ BindEnds \/ RegisterPlugin \/ InitService \/ Change
  \/ ChangeFails \/ Shutdown

Spec == Init /\ [][Next]_vars
-----------------------------------------------------------------------------
(* The arrays, with their collisions, free slots and doublings, implement  *)
(* a map (dictionary_set, dictionary_unset), through loading and changes.  *)
Map == INSTANCE KeyMap WITH map <- Contents, Values <- Values \cup {NULL}
ImplementsMap == Map!Spec

(* A change touches the entry it names, in whatever case, and no other,    *)
(* also where keys collide (iniparser_set, iniparser_unset).  An entry     *)
(* that is not there is added, as html/index.html:97 says ("you can use    *)
(* iniparser_set() to insert a string"), although of such an entry the     *)
(* comment of the function says that "-1 is returned" (iniparser.c:521).   *)
ChangesAsAsked ==
  [][\A k \in UserKeys :
       /\ Change /\ IniUnset(k) => Map!Remove(LowerKey(k))
       /\ \A v \in UserValues : Change /\ IniSet(k, v) => Map!Put(LowerKey(k), v)]_vars

(* str_split returns the words of the line, of which the last one has the  *)
(* rest of the line; load_bind_file asks it of no comment.                 *)
SplitIsRight == (bline # <<>> /\ bline[1] = "#") \/ IsSplit(bline, fields)

(* A plugin that is registered has all the functions that net_loop and the *)
(* workers call without a test, and it is closed once, however             *)
(* register_plugin ended.                                                  *)
PluginIsWhole ==
  /\ at = "running" /\ handle = "open" => Range(Required) \subseteq fns
  /\ opened = IF handle = "open" THEN 1 ELSE 0

(* What the file assigns to a setting in the section server. *)
FileSays(s) ==
  LET w == Written(lines)
  IN  IF ini /\ <<"server", s>> \in DOMAIN w THEN w[<<"server", s>>] ELSE NULL

(* Each setting that samples/bench.ini documents is in effect with the     *)
(* value the file gives it.                                                *)
SettingsInEffect ==
  at = "running" => \A s \in Settings : conf[s] = FileSays(s)
=============================================================================
