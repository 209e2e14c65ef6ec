--------------------------- MODULE ExternalQuery ---------------------------
(***************************************************************************)
(* The WHERE pushed to an external database                                *)
(* (src/Storages/transformQueryForExternalDatabase.cpp).                   *)
(*                                                                         *)
(* transformQueryForExternalDatabaseImpl takes the WHERE of the query,     *)
(* removes the subexpressions that name columns the external table does   *)
(* not have (removeUnknownSubexpressionsFromWhere), folds constant        *)
(* subexpressions (replaceConstantExpressions), rewrites literal 0/1      *)
(* arguments of and/or as 1=0 / 1=1, and pushes the result if every       *)
(* function in it is one the external databases understand (isCompatible),*)
(* or else the compatible conjuncts of a top-level and, or throws in      *)
(* strict mode.  The rows the external database returns are filtered       *)
(* again locally with the full WHERE.                                      *)
(*                                                                         *)
(* An expression is a record [kind, name, val, args]: an identifier        *)
(* (name), a numeric literal (val), or a function (name, args).  Columns   *)
(* and literals take the values 0 and 1.  The functions are and, or, not, *)
(* equals (all compatible) and toUInt8, standing for any function the     *)
(* external databases do not support.  The text the query is formatted to *)
(* and aliases (dropAliases) are left out: the pushed AST is the output.  *)
(***************************************************************************)
EXTENDS Naturals, Sequences

CONSTANTS
    Known,      \* the columns of the external table (available_columns)
    Unknown,    \* columns of other tables the WHERE may name
    MaxDepth    \* bound on the nesting of the WHERE expressions enumerated

ASSUME ExternalQueryAssumption ==
    /\ Known \cap Unknown = {}
    /\ MaxDepth \in Nat

Node(k, n, v, a) == [kind |-> k, name |-> n, val |-> v, args |-> a]
Ident(n) == Node("ident", n, 0, <<>>)
Lit(v) == Node("lit", "", v, <<>>)
Fn(f, a) == Node("func", f, 0, a)
NoWhere == Node("none", "", 0, <<>>)
Error == Node("error", "INCORRECT_QUERY", 0, <<>>)

Values == {0, 1}
Binary == {"and", "or", "equals"}
Unary == {"not", "toUInt8"}

\* The WHERE expressions of nesting at most d.
RECURSIVE Exprs(_)
Exprs(d) ==
    IF d = 0 THEN {Ident(c) : c \in Known \cup Unknown} \cup {Lit(v) : v \in Values}
    ELSE LET E == Exprs(d - 1)
         IN  E \cup {Fn(f, <<x, y>>) : f \in Binary, x \in E, y \in E}
               \cup {Fn(f, <<x>>) : f \in Unary, x \in E}

Wheres == Exprs(MaxDepth) \cup {NoWhere}

\* The value of an expression for the column values env.
RECURSIVE Eval(_, _)
Eval(e, env) ==
    CASE e.kind = "ident"  -> env[e.name]
      [] e.kind = "lit"    -> e.val
      [] e.kind = "none"   -> 1
      [] e.name = "and"    -> IF \A i \in DOMAIN e.args : Eval(e.args[i], env) # 0 THEN 1 ELSE 0
      [] e.name = "or"     -> IF \E i \in DOMAIN e.args : Eval(e.args[i], env) # 0 THEN 1 ELSE 0
      [] e.name = "not"    -> IF Eval(e.args[1], env) = 0 THEN 1 ELSE 0
      [] e.name = "equals" -> IF Eval(e.args[1], env) = Eval(e.args[2], env) THEN 1 ELSE 0
      [] e.name = "toUInt8" -> Eval(e.args[1], env)

Envs == [Known \cup Unknown -> Values]

RECURSIVE FuncNames(_)
FuncNames(e) ==
    (IF e.kind = "func" THEN {e.name} ELSE {})
        \cup UNION {FuncNames(e.args[i]) : i \in DOMAIN e.args}

RECURSIVE Idents(_)
Idents(e) ==
    IF e.kind = "ident" THEN {e.name}
    ELSE UNION {Idents(e.args[i]) : i \in DOMAIN e.args}

-----------------------------------------------------------------------------
(* isCompatible, lines 146-216: the tuple and IN cases do not arise for the  *)
(* functions modelled; a numeric literal and an identifier are compatible.   *)
CompatibleNames == {"and", "or", "not", "equals"}

\* An isCompatible that looks at the top-level function only.
IsCompatibleShallow(e) == e.kind # "func" \/ e.name \in CompatibleNames

RECURSIVE IsCompatible(_)
IsCompatible(e) ==
    IF e.kind = "func"
    THEN /\ e.name \in CompatibleNames
         /\ \A i \in DOMAIN e.args : IsCompatible(e.args[i])
    ELSE TRUE

(* removeUnknownSubexpressions returns whether to keep the node and the node *)
(* as rewritten in place; removeUnknownChildren keeps the kept children.     *)
RECURSIVE RemoveUnknownSubexpressions(_), RemoveUnknownChildren(_)

\* A removeUnknownChildren that keeps every child.
RemoveUnknownChildrenKeepAll(args) ==
    [i \in DOMAIN args |-> RemoveUnknownSubexpressions(args[i]).node]

RemoveUnknownChildren(args) ==
    LET r == [i \in DOMAIN args |-> RemoveUnknownSubexpressions(args[i])]
    IN  [j \in DOMAIN SelectSeq(r, LAMBDA x : x.keep) |-> SelectSeq(r, LAMBDA x : x.keep)[j].node]

RemoveUnknownSubexpressions(e) ==
    CASE e.kind = "ident" -> [keep |-> e.name \in Known, node |-> e]
      [] e.kind = "lit"   -> [keep |-> TRUE, node |-> e]
      [] e.name \in {"and", "or"} ->
            LET kids == RemoveUnknownChildren(e.args)
            IN  IF Len(kids) = 1 THEN [keep |-> TRUE, node |-> kids[1]]
                ELSE [keep |-> kids # <<>>, node |-> Fn(e.name, kids)]
      [] OTHER ->
            \* every child must stay; the loop stops at the first that does not,
            \* after rewriting the children before it
            LET r == [i \in DOMAIN e.args |-> RemoveUnknownSubexpressions(e.args[i])]
                bad == {i \in DOMAIN e.args : ~r[i].keep}
                stop == IF bad = {} THEN Len(e.args) ELSE CHOOSE i \in bad : \A j \in bad : i <= j
            IN  [keep |-> bad = {},
                 node |-> Fn(e.name, [i \in DOMAIN e.args |-> IF i <= stop THEN r[i].node ELSE e.args[i]])]

\* removeUnknownSubexpressionsFromWhere: no WHERE keeps nothing.  (The WHERE
\* is never an expression list, so the branch of lines 280-285 is not taken.)
RemoveUnknownSubexpressionsFromWhere(w) ==
    IF w = NoWhere THEN [keep |-> FALSE, node |-> w] ELSE RemoveUnknownSubexpressions(w)

\* replaceConstantExpressions: top-down, a function with no column in it is
\* replaced by the literal of its value.
RECURSIVE ReplaceConstantExpressions(_)
ReplaceConstantExpressions(e) ==
    IF e.kind # "func" THEN e
    ELSE IF Idents(e) = {} THEN Lit(Eval(e, CHOOSE env \in Envs : TRUE))
    ELSE Fn(e.name, [i \in DOMAIN e.args |-> ReplaceConstantExpressions(e.args[i])])

\* A rewriting with the two cases swapped.
LiteralToExprSwapped(v) == Fn("equals", <<Lit(1), Lit(1 - v)>>)

\* 1 -> 1=1, 0 -> 1=0.
LiteralToExpr(v) == Fn("equals", <<Lit(1), Lit(v)>>)

\* ReplaceLiteralToExprVisitor: literal 0/1 arguments of and/or become
\* comparisons, top-down.
RECURSIVE ReplaceLiteralToExpr(_)
ReplaceLiteralToExpr(e) ==
    IF e.kind # "func" THEN e
    ELSE LET a == IF e.name \in {"and", "or"}
                  THEN [i \in DOMAIN e.args |->
                          IF e.args[i].kind = "lit" THEN LiteralToExpr(e.args[i].val) ELSE e.args[i]]
                  ELSE e.args
         IN  Fn(e.name, [i \in DOMAIN a |-> ReplaceLiteralToExpr(a[i])])

\* The breadth-first walk over nested and/tuple of lines 341-357: the
\* compatible arguments are collected, incompatible and/tuple are queued.
RECURSIVE CollectConjuncts(_, _)
CollectConjuncts(queue, acc) ==
    IF queue = <<>> THEN acc
    ELSE LET f == Head(queue)
             nested == SelectSeq(f.args, LAMBDA x : ~IsCompatible(x) /\ x.kind = "func" /\ x.name \in {"and", "tuple"})
         IN  CollectConjuncts(Tail(queue) \o nested, acc \o SelectSeq(f.args, IsCompatible))

\* WHERE 1 -> WHERE 1=1, WHERE 0 -> WHERE 1=0 (lines 372-382).
WhereLiteral(w) == IF w.kind = "lit" THEN LiteralToExpr(w.val) ELSE w

\* A transformation that wraps even a single collected conjunct in and().
TransformWhereAndOfOne(w, strict) ==
    LET r == RemoveUnknownSubexpressionsFromWhere(w)
        w2 == ReplaceLiteralToExpr(ReplaceConstantExpressions(r.node))
        cs == CollectConjuncts(<<w2>>, <<>>)
    IN  CASE ~r.keep /\ strict /\ w # NoWhere -> Error
          [] ~r.keep -> NoWhere
          [] IsCompatible(w2) -> WhereLiteral(w2)
          [] strict -> Error
          [] w2.kind = "func" /\ w2.name \in {"and", "tuple"} /\ Len(cs) >= 1 -> Fn("and", cs)
          [] OTHER -> NoWhere

\* transformQueryForExternalDatabaseImpl, for the WHERE: the pushed WHERE,
\* NoWhere, or Error.
TransformWhere(w, strict) ==
    LET r == RemoveUnknownSubexpressionsFromWhere(w)
        w2 == ReplaceLiteralToExpr(ReplaceConstantExpressions(r.node))
        cs == CollectConjuncts(<<w2>>, <<>>)
    IN  CASE ~r.keep /\ strict /\ w # NoWhere -> Error
          [] ~r.keep -> NoWhere
          [] IsCompatible(w2) -> WhereLiteral(w2)
          [] strict -> Error
          [] w2.kind = "func" /\ w2.name \in {"and", "tuple"} /\ Len(cs) = 1 -> cs[1]
          [] w2.kind = "func" /\ w2.name \in {"and", "tuple"} /\ Len(cs) > 1 -> Fn("and", cs)
          [] OTHER -> NoWhere

-----------------------------------------------------------------------------
VARIABLES
    where,      \* the WHERE of the query
    strict,     \* external_table_strict_query
    pushed,     \* the WHERE of the query sent, NoWhere or Error
    done        \* whether the transformation has run

vars == <<where, strict, pushed, done>>

Init ==
    /\ where \in Wheres
    /\ strict \in BOOLEAN
    /\ pushed = NoWhere
    /\ done = FALSE

Transform ==
    /\ ~done
    /\ pushed' = TransformWhere(where, strict)
    /\ done' = TRUE
    /\ UNCHANGED <<where, strict>>

Spec == Init /\ [][Transform]_vars

-----------------------------------------------------------------------------
\* An expression the external database can parse: every and/or has at least
\* two arguments (a one-argument and(x) is not SQL), not one, equals two.
RECURSIVE WellFormed(_)
WellFormed(e) ==
    \/ e.kind = "ident" /\ e.args = <<>>
    \/ e.kind = "lit" /\ e.args = <<>> /\ e.val \in Values
    \/ /\ e.kind = "func"
       /\ \/ e.name \in {"and", "or"} /\ Len(e.args) >= 2
          \/ e.name = "equals" /\ Len(e.args) = 2
          \/ e.name \in Unary /\ Len(e.args) = 1
       /\ \A i \in DOMAIN e.args : WellFormed(e.args[i])

Pushed == pushed \notin {NoWhere, Error}

\* Type invariant: the WHERE sent to the external database, when there is
\* one, is a well-formed expression (the single-child pull-up of
\* removeUnknownSubexpressions and the size checks of lines 359-362 see to it).
TypeOK ==
    /\ where \in Wheres
    /\ strict \in BOOLEAN
    /\ done \in BOOLEAN
    /\ Pushed => WellFormed(pushed)

\* The WHERE sent names only columns of the external table, whatever the
\* nesting of the columns of other tables in the query's WHERE.
PushedOnlyKnownColumns == Pushed => Idents(pushed) \subseteq Known

\* The WHERE sent uses only functions the external databases support, after
\* the unknown subexpressions are removed and the constants folded.
PushedCompatible == Pushed => FuncNames(pushed) \subseteq CompatibleNames

\* A WHERE that names only the table's columns and only supported functions
\* is sent whole: the constant folding and the 0/1 rewriting keep its value
\* for every row, and strict mode does not throw.
PushdownExact ==
    (done /\ where # NoWhere /\ Idents(where) \subseteq Known /\ IsCompatible(where))
        => /\ pushed # Error
           /\ \A env \in Envs : Eval(pushed, env) = Eval(where, env)

\* The comment of lines 266-270: the WHERE sent only leaves out conditions on
\* other tables, so every row the query's WHERE accepts (for some values of
\* the other tables' columns) is returned by the external database.
PushdownSound ==
    (done /\ pushed # Error) =>
        \A env \in Envs : Eval(where, env) = 1 => Eval(pushed, env) = 1
=============================================================================
