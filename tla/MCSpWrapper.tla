------------------------------ MODULE MCSpWrapper ------------------------------
(* Instances of SpWrapper, with configurations that overlap.               *)
EXTENDS SpWrapper

CONSTANTS file, phar, var, memory, input

MCBuiltin == {php, file}
MCLate    == {phar}
MCUsers   == {var}
MCKinds   == {memory, input}

White(l, k) == [enabled |-> TRUE, list |-> l, php_list |-> k]
MCConfigs == {NoConfig, White({php, var}, {memory}), White({php, phar}, {}), White({file, php}, {input}),
              White({phar, file}, {memory})}
=============================================================================
