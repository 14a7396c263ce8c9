------------------------------ MODULE MCSpConfig ------------------------------
(* Instances of SpConfig: a statement for each thing the parser does with  *)
(* one, the ones it refuses among them.                                    *)
EXTENDS SpConfig

MCMalformed  == {"bad("}
MCWeakKeys   == {"short"}
MCMissing    == {"/missing"}
MCRelative   == {"lib.php"}
MCPredefined == [PHP_VERSION_ID |-> "80300"]
MCAtoi       == ("80300" :> 80300) @@ ("/up" :> 0) @@ ("1" :> 1)

K(k)     == [k |-> k, form |-> "empty", v |-> ""]
A(k, v)  == [k |-> k, form |-> "text", v |-> v]
V(k, x)  == [k |-> k, form |-> "var", v |-> x]
R(d, ks) == [t |-> "rule", d |-> d, kws |-> ks]
If(ts)   == [t |-> "condition", tokens |-> ts]
Let(x, v) == [t |-> "set", var |-> x, v |-> v]
End      == [t |-> "end_condition"]
N(n)     == <<"num", n>>

Structure == {If(<<<<"var", "PHP_VERSION_ID">>, <<"<">>, N(80000)>>), If(<<<<"var", "x">>>>), If(<<N(1), N(1)>>),
              End, [t |-> "error"], Let("x", "1"), Let("x", "/up")}

Secrets == {R("global", <<A("secret_key", "good"), A("cookie_env_var", "IP")>>),
            R("global", <<A("log_media", "php"), A("secret_key", "short")>>),
            R("global", <<A("secret_key", "short")>>), R("global", <<A("secret_key", "other")>>), R("global", <<A("cookie_env_var", "IP")>>),
            R("session", <<K("encrypt")>>),
            R("cookie", <<A("name", "c"), A("samesite", "lax")>>),
            R("cookie", <<A("name", "c"), A("samesite", "strict")>>),
            R("cookie", <<A("name", "c"), K("encrypt"), K("simulation")>>)}

Rest == {R("ini_protection", <<K("enable"), K("policy_readonly")>>), R("ini_protection", <<K("policy_drop")>>),
         R("ini", <<A("name_of", "x")>>), R("ini", <<A("key", "k"), K("readonly")>>),
         R("upload_validation", <<V("script", "x"), K("enable")>>),
         R("readonly_exec", <<K("enable"), K("noxchecks")>>),
         R("wrappers_whitelist", <<A("list", "file"), A("php_list", "stdin")>>),
         R("eval_blacklist", <<A("list", "system")>>), R("xxe_protection", <<K("enable"), K("disable")>>),
         R("disable_function", <<A("function", "print"), A("ret", "x"), A("cidr", "ip"), K("drop")>>),
         R("disable_function", <<A("function", "f"), A("ret", "x"), A("param", "p"), K("drop")>>)}

MCStatements == Structure \cup Secrets \cup Rest
=============================================================================
