----------------------------- MODULE MCStartup -----------------------------
(* Small files for TLC. *)
EXTENDS Startup

MCLower ==
  [s \in {"", "server", "max_open_fd", "run_mode", "bind_conf", "dll_file",
         "send_buf_limit_size"} |-> s]
    @@ ("Server" :> "server") @@ ("RUN_MODE" :> "run_mode")

MCKeys ==
  {<<"server">>, <<"max_open_fd">>, <<"run_mode">>}
    \cup ({"", "server", "max_open_fd"} \X {"run_mode", "bind_conf", "dll_file"})
    \cup {<<"server", "send_buf_limit_size">>}

MCUserKeys == {<<"Server">>, <<"server", "RUN_MODE">>, <<"max_open_fd", "run_mode">>}

MCUserValues == {<<"b">>, NULL}

(* The keys with a section collide, and those without. *)
MCHash == [k \in MCKeys |-> Len(k)]

Value(name, text) == [type |-> "value", name |-> name, val |-> text]

MCLines ==
  {[type |-> "empty"], [type |-> "comment"], [type |-> "error"],
   [type |-> "section", name |-> "Server"],
   [type |-> "section", name |-> "max_open_fd"],
   Value("run_mode", <<"a">>), Value("RUN_MODE", <<"b">>),
   Value("bind_conf", <<"dq", "a", ";", "b", "dq">>), Value("dll_file", <<"a">>)}

MCValues ==
  {<<"b">>} \cup
    {ParseValue(l.val \o t) : l \in {m \in MCLines : m.type = "value"},
                              t \in Tails(MaxLines - 1)}

Chars(m) == [1 .. m -> {"x", " "}]

MCBindLines ==
  LET plain == UNION {Chars(m) : m \in 0 .. 5}
  IN  plain \cup {<<"#">> \o l : l \in Chars(3)}
=============================================================================
