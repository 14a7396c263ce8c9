----------------------------- MODULE MCSpDisable -----------------------------
(* Instances of SpDisable: a native function, two functions of the script  *)
(* and a variadic one, echo and an include, and configurations that bring  *)
(* each filter and each list into play.                                    *)
EXTENDS SpDisable

CONSTANTS system, outer, inner, logf, echo, include, main, lib, tpl, host, other

MCNative    == {system}
MCUser      == {outer, inner, logf}
MCConstruct == {echo, include}
MCInclude   == {include}
MCDeclared  == (system :> <<"cmd">>) @@ (outer :> <<"x", "xs">>) @@ (inner :> <<>>) @@ (logf :> <<>>)
MCDefinedIn == (outer :> main) @@ (inner :> lib) @@ (logf :> lib)
MCBehind    == [f \in DOMAIN MCDeclared |-> IF f = system THEN "xs" ELSE None]
MCVariadic  == {logf}
MCSha       == (main :> <<1, 1>>) @@ (lib :> <<2, 1>>) @@ (tpl :> <<2, 2>>)
MCClients   == {host, other}

Str(s)  == [type |-> "string", text |-> s]
Undef   == [type |-> "null", text |-> ""]
Arr(ks, ls) == [type |-> "array", keys |-> ks, leaves |-> ls]
MCRets  == {Str("ok"), Str("secret")}

\* The arguments as is_param_matching finds them: behind the declared ones of a
\* function of the script are its variables.
Func(f, args) == [fn |-> f, file |-> IF f \in MCUser THEN MCDefinedIn[f] ELSE None,
                  args |-> args, vars |-> {}, line |-> IF f = inner THEN 7 ELSE 3]
Built(f, v, opens) == [fn |-> f, file |-> None, operand |-> v, opens |-> opens, vars |-> {}, line |-> 3]

MCCalls == { Func(inner, <<>>), Func(system, <<Str("id")>>), Func(system, <<Str("ls")>>),
             [Func(system, <<Str("id"), Str("ls")>>) EXCEPT !.line = 5],
             [Func(outer, <<Str("id")>>) EXCEPT !.vars = {"v"}],
             Func(outer, <<Arr({"k"}, {"ls"}), Str("ls"), Undef>>),
             Func(logf, <<Str("ls")>>), Built(echo, "ls", None), Built(include, "tpl", tpl) }

Blank == [function |-> None, chain |-> <<>>, r_function |-> {}, files |-> {}, cidr |-> {},
        var |-> {}, hash |-> {}, pos |-> -1, param |-> None, r_param |-> {}, type |-> None,
        keys |-> {}, values |-> {}, ret |-> {}, ret_type |-> {}, allow |-> FALSE, simulation |-> FALSE, line |-> 0]
On(f)   == [Blank EXCEPT !.function = f]
OnR(S)  == [Blank EXCEPT !.r_function = S]
Cmd(v)  == [On(system) EXCEPT !.param = "cmd", !.values = {v}]
Sim(r)  == [r EXCEPT !.simulation = TRUE]
May(r)  == [r EXCEPT !.allow = TRUE]
Chain(c) == [Blank EXCEPT !.chain = c]

\* The example of doc/source/config.rst:578.
Example == <<May(Cmd("id")), Sim(Cmd("ls")), [On(system) EXCEPT !.param = "cmd"]>>

MCConfigs ==
  { Example,
    <<Chain(<<system, outer>>), May(Cmd("id")), [Sim(On(system)) EXCEPT !.files = {lib}], [On(inner) EXCEPT !.line = 7],
      [On(outer) EXCEPT !.keys = {"k"}, !.pos = 0, !.type = "array"]>>,
    <<[Sim(OnR({system, logf})) EXCEPT !.hash = {<<2, 1>>}],
      [OnR({system, outer}) EXCEPT !.r_param = {"x", "xs"}, !.values = {"ls"}]>>,
    <<[On(include) EXCEPT !.values = {"lib"}], [On(echo) EXCEPT !.files = {tpl}],
      [On(outer) EXCEPT !.var = {"v"}, !.cidr = {host}], [On(logf) EXCEPT !.values = {"id"}]>>,
    <<[On(inner) EXCEPT !.pos = 0, !.files = {lib}], Chain(<<outer, inner>>)>>,
    <<[Sim(On(system)) EXCEPT !.ret_type = {"string"}], [On(system) EXCEPT !.ret = {"secret"}],
      [May(OnR({outer, logf})) EXCEPT !.ret = {"ok"}], [OnR({outer}) EXCEPT !.ret_type = {"string"}]>> }
=============================================================================
