---------------------------- MODULE MCLifecycle ----------------------------
(* Model-checking instances of Lifecycle. *)
EXTENDS Lifecycle

Standard == [kind |-> "standard"]

Source(field, fallback) == [field |-> field, fallback |-> fallback]
Nothing == Source("", "")

(* pkg/config/defaults/resources.yaml: eks and lambda. *)
EKS == [kind |-> "declarative",
        deprecation |-> Source("eol", ""), deprecatedSupportEnd |-> Nothing,
        extendedSupportEnd |-> Source("extendedSupport", "eol"),
        eolDate |-> Source("extendedSupport", ""),
        deprecatedWindow |-> "extended_support", pastExtendedSupport |-> "unsupported"]
Lambda == [kind |-> "declarative",
           deprecation |-> Source("support", ""), deprecatedSupportEnd |-> Source("eol", ""),
           extendedSupportEnd |-> Nothing, eolDate |-> Source("support", ""),
           deprecatedWindow |-> "deprecated_support", pastExtendedSupport |-> ""]

(* Schemas a user may write: all four dates, and contrary actions. *)
Odd(window, past) ==
    [kind |-> "declarative",
     deprecation |-> Source("support", "eol"), deprecatedSupportEnd |-> Source("eol", ""),
     extendedSupportEnd |-> Source("extendedSupport", ""), eolDate |-> Nothing,
     deprecatedWindow |-> window, pastExtendedSupport |-> past]
OddSchemas == {Odd("supported", "supported"), Odd("eol", "extended_support"), Odd("", "")}

Shipped == {Standard, EKS, Lambda}
All == Shipped \cup OddSchemas
=============================================================================
