-------------------------- MODULE SymbolicFormula --------------------------
(***************************************************************************)
(* The closed typed AST of a formalization and the two programs that type  *)
(* it: the structural validator of the domain, which infers sorts and      *)
(* units, and the translator of the Z3 adapter, which infers sorts again   *)
(* while it builds the solver's expression.                                *)
(*                                                                         *)
(* An AST is a sequence of nodes with the root last; the arguments of an   *)
(* operation are positions of earlier nodes.  Values of literals do not    *)
(* take part in typing and are left out.  A unit is a bag of base units    *)
(* (the code's sorted product), the bag without elements being "1"; the    *)
(* unit a node may lack is a set of at most one bag.                       *)
(*                                                                         *)
(* Sources: backend/app/domain/formalization.py and                        *)
(* adapters/z3_symbolic/reasoner.py.                                       *)
(***************************************************************************)
EXTENDS Integers, Sequences, FiniteSets, Bags

Numeric == {"INTEGER", "REAL"}
Literals == [boolean |-> "BOOLEAN", integer |-> "INTEGER", real |-> "REAL"]
Untyped == "none"

One == EmptyBag     \* the unit "1"
Arity(op) == IF op \in {"NOT", "NEG"} THEN 1 ELSE 2

(* SymbolDeclaration and its valid_unit. *)
ValidDeclaration(d) ==
  /\ d.sort \in {"BOOLEAN"} \cup Numeric
  /\ (d.sort = "BOOLEAN") <=> (d.unit = {})

(* Constructors of nodes. *)
Lit(sort) == [kind |-> sort]
Sym(name) == [kind |-> "symbol", name |-> name]
Op(op, args) == [kind |-> "operation", op |-> op, args |-> args]

Operators == {"NOT", "AND", "OR", "NEG", "ADD", "SUB", "MUL", "DIV", "EQ", "NE", "LT", "LE", "GT", "GE"}

(* ASTNode: a literal, a symbol or an operation on nodes below it. *)
IsTree(ast) ==
  /\ Len(ast) \in Nat \ {0} /\ DOMAIN ast = 1..Len(ast)
  /\ \A i \in DOMAIN ast :
       \/ ast[i].kind \in DOMAIN Literals
       \/ ast[i].kind = "symbol"
       \/ ast[i].kind = "operation" /\ ast[i].op \in Operators /\ ast[i].args \in Seq(1..(i - 1))

Operands(node) == IF node.kind = "operation" THEN DOMAIN node.args ELSE {}
-----------------------------------------------------------------------------
(* The declarations a validator keeps: the first of every name. *)
Declared(symbols, name) ==
  {symbols[i] : i \in {i \in DOMAIN symbols :
     symbols[i].name = name /\ \A j \in 1..(i - 1) : symbols[j].name # name}}

NamedTwice(symbols) == \E i, j \in DOMAIN symbols : i # j /\ symbols[i].name = symbols[j].name

(* Units that are neither missing nor "1". *)
Effective(sigs) == (UNION {sigs[k].unit : k \in DOMAIN sigs}) \ {One}
UnitOr1(sig) == IF sig.unit = {} THEN One ELSE CHOOSE u \in sig.unit : TRUE

(* validate_revision.walk: the sorts of the operands do not suit the operator. *)
SortMismatch(op, sorts) ==
  CASE op \in {"NOT", "AND", "OR"} -> sorts # {"BOOLEAN"}
    [] op \in {"EQ", "NE"} -> Cardinality(sorts) > 1 /\ ~(sorts \subseteq Numeric)
    [] OTHER -> ~(sorts \subseteq Numeric)

(* validate_revision.walk, the checks of an operation on typed operands. *)
OperationIssues(op, sigs) ==
  LET sorts == {sigs[k].sort : k \in DOMAIN sigs}
      compared == \/ op \in {"ADD", "SUB", "LT", "LE", "GT", "GE"}
                  \/ op \in {"EQ", "NE"} /\ sorts \subseteq Numeric
  IN {c \in {"SORT_MISMATCH", "UNIT_MISMATCH", "UNSUPPORTED_UNIT_OPERATION"} :
        \/ c = "SORT_MISMATCH" /\ SortMismatch(op, sorts)
        \/ c = "UNIT_MISMATCH" /\ compared /\ Cardinality(Effective(sigs)) > 1
        \/ c = "UNSUPPORTED_UNIT_OPERATION" /\ op = "DIV" /\ sigs[2].unit # {One}}

(* validate_revision.walk, the sort and unit an operation has. *)
OperationType(op, sigs) ==
  LET reals == \E k \in DOMAIN sigs : sigs[k].sort = "REAL"
  IN CASE op = "NEG" -> [sort |-> sigs[1].sort, unit |-> sigs[1].unit]
       [] op \in {"ADD", "SUB"} ->
            [sort |-> IF reals THEN "REAL" ELSE "INTEGER",
             unit |-> IF Effective(sigs) = {} THEN {One}
                      ELSE {IF sigs[1].unit \in {{}, {One}} THEN UnitOr1(sigs[2]) ELSE UnitOr1(sigs[1])}]
       [] op = "MUL" -> [sort |-> "REAL", unit |-> {UnitOr1(sigs[1]) (+) UnitOr1(sigs[2])}]
       [] op = "DIV" -> [sort |-> "REAL", unit |-> sigs[1].unit]
       [] OTHER -> [sort |-> "BOOLEAN", unit |-> {}]

(* validate_revision.walk: the sort, the unit and the issues of a node. *)
NodeType(node, sigs, symbols) ==
  LET untyped(issues) == [sort |-> Untyped, unit |-> {}, issues |-> issues]
      d == CHOOSE d \in Declared(symbols, node.name) : TRUE
  IN CASE node.kind \in DOMAIN Literals -> [sort |-> Literals[node.kind], unit |-> {}, issues |-> {}]
       [] node.kind = "symbol" ->
            IF Declared(symbols, node.name) = {} THEN untyped({"UNDECLARED_SYMBOL"})
            ELSE [sort |-> d.sort, unit |-> d.unit, issues |-> {}]
       [] OTHER ->
            IF Len(node.args) # Arity(node.op) THEN untyped({"WRONG_ARITY"})
            ELSE IF \E k \in DOMAIN sigs : sigs[k].sort = Untyped THEN untyped({})
            ELSE [sort |-> OperationType(node.op, sigs).sort,
                  unit |-> OperationType(node.op, sigs).unit,
                  issues |-> OperationIssues(node.op, sigs)]

(* The walk over the whole tree. *)
Walk(ast, symbols) ==
  LET sig[i \in DOMAIN ast] ==
        NodeType(ast[i], [k \in Operands(ast[i]) |-> sig[ast[i].args[k]]], symbols)
  IN sig

(* validate_revision: the codes of the issues; none is a success. *)
Issues(b) ==
  LET sig == Walk(b.ast, b.symbols)
      root == sig[Len(b.ast)].sort
  IN (UNION {sig[i].issues : i \in DOMAIN b.ast})
     \cup {c \in {"DUPLICATE_SYMBOL"} : NamedTwice(b.symbols)}
     \cup {c \in {"NON_BOOLEAN_ROOT"} : root \notin {Untyped, "BOOLEAN"}}
     \cup {c \in {"NONCANONICAL_RENDERING"} : ~b.canonical}
-----------------------------------------------------------------------------
InputError == "error"

(* Z3SymbolicReasoner._translate_operation: the sort of the expression. *)
TranslatedOperation(op, sorts) ==
  LET numeric == \A k \in DOMAIN sorts : sorts[k] \in Numeric
  IN CASE op \in {"NOT", "AND", "OR"} ->
            IF \A k \in DOMAIN sorts : sorts[k] = "BOOLEAN" THEN "BOOLEAN" ELSE InputError
       [] op \in {"EQ", "NE"} -> IF sorts[1] = sorts[2] \/ numeric THEN "BOOLEAN" ELSE InputError
       [] op \in {"LT", "LE", "GT", "GE"} -> IF numeric THEN "BOOLEAN" ELSE InputError
       [] op = "NEG" -> IF numeric THEN sorts[1] ELSE InputError
       [] OTHER -> IF ~numeric THEN InputError
                   ELSE IF op = "DIV" \/ \E k \in DOMAIN sorts : sorts[k] = "REAL" THEN "REAL" ELSE "INTEGER"

(* _translate_node: the sort of the expression of a node. *)
NodeSort(node, sorts, symbols) ==
  CASE node.kind \in DOMAIN Literals -> Literals[node.kind]
    [] node.kind = "symbol" ->
         IF Declared(symbols, node.name) = {} THEN InputError
         ELSE (CHOOSE d \in Declared(symbols, node.name) : TRUE).sort
    [] OTHER ->
         IF Len(node.args) # Arity(node.op) \/ \E k \in DOMAIN sorts : sorts[k] = InputError
         THEN InputError ELSE TranslatedOperation(node.op, sorts)

(* The translation of the whole tree. *)
Translated(ast, symbols) ==
  LET sort[i \in DOMAIN ast] ==
        NodeSort(ast[i], [k \in Operands(ast[i]) |-> sort[ast[i].args[k]]], symbols)
  IN sort

(* _evaluate_sync up to the solver: _translate_declarations refuses a name   *)
(* that is declared twice, and the input reaches the solver as a Boolean.    *)
Translates(b) == ~NamedTwice(b.symbols) /\ Translated(b.ast, b.symbols)[Len(b.ast)] = "BOOLEAN"

(* _tracked_assertions: the conjuncts reached from the root through AND. *)
Tracked(ast) ==
  LET flat[i \in DOMAIN ast] ==
        IF ast[i].kind = "operation" /\ ast[i].op = "AND" THEN flat[ast[i].args[1]] \o flat[ast[i].args[2]]
        ELSE <<i>>
  IN flat[Len(ast)]
=============================================================================
