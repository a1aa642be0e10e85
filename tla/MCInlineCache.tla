--------------------------- MODULE MCInlineCache ---------------------------
(* Class hierarchies and programs on which TLC checks InlineCache.          *)
EXTENDS InlineCache

CONSTANTS
    A, B,                      \* class B(A)
    P, T, U, C,                \* class T(P), class U(P), class C(T, U)
    f, g,                      \* functions
    m, p, item, add, radd, iadd, lt, gt,
    a, b, getter               \* methods and a property

Of(t) == [type |-> t, attrs |-> {}]
With(t, n) == [type |-> t, attrs |-> {n}]

Op(op, names, keys) == [op |-> op, names |-> names, keys |-> keys]

\* Single inheritance.
ChainMro == (A :> <<A>>) @@ (B :> <<B, A>>)

\* A binary operation on three pairs of layouts, more than a polymorphic cache
\* holds, and an attribute that is an instance variable, a property or a method.
BinaryOperations ==
    [code |->
        (f :> <<Op("BINARY_OP", <<add, radd>>,
                    {<<Of(A), Of(B)>>, <<Of(B), Of(B)>>, <<Of(B), Of(A)>>}),
                Op("LOAD_METHOD", <<p>>, {<<Of(A)>>, <<Of(B)>>})>>)
        @@ (g :> <<Op("LOAD_ATTR", <<p>>, {<<With(B, p)>>})>>),
     assigns |-> {<<A, add, a>>, <<B, add, b>>, <<B, radd, b>>, <<A, p, a>>, <<A, p, getter>>},
     deletes |-> {<<B, add>>},
     drops |-> {g}]

\* An in-place operation beside a binary one with the same selectors.
InplaceOperations ==
    [code |->
        (f :> <<Op("INPLACE_OP", <<iadd, add, radd>>,
                    {<<Of(A), Of(B)>>, <<Of(B), Of(B)>>, <<Of(B), Of(A)>>}),
                Op("BINARY_OP", <<add, radd>>, {<<Of(A), Of(B)>>})>>)
        @@ (g :> <<Op("BINARY_SUBSCR", <<item>>, {<<Of(A)>>, <<Of(B)>>})>>),
     assigns |-> {<<A, iadd, a>>, <<B, iadd, b>>, <<A, add, a>>, <<B, radd, b>>, <<B, item, b>>},
     deletes |-> {<<B, iadd>>},
     drops |-> {g}]

\* A comparison, and stores to instances with and without the attribute.
Comparisons ==
    [code |->
        (f :> <<Op("COMPARE_OP", <<lt, gt>>, {<<Of(A), Of(B)>>, <<Of(B), Of(A)>>})>>)
        @@ (g :> <<Op("STORE_ATTR", <<p>>, {<<Of(A)>>, <<With(A, p)>>, <<With(B, p)>>}),
                   Op("FOR_ITER", <<item>>, {<<Of(B)>>})>>),
     assigns |-> {<<A, lt, a>>, <<A, gt, a>>, <<B, gt, b>>, <<B, p, a>>, <<A, p, getter>>,
                  <<A, item, a>>},
     deletes |-> {<<B, gt>>},
     drops |-> {f}]

ChainPrograms == {BinaryOperations, InplaceOperations, Comparisons}

\* One opcode of one function.
One(op, n, assigns, deletes) ==
    {[code |-> (f :> <<Op(op, <<n>>, {<<With(A, p)>>})>>) @@ (g :> <<>>),
      assigns |-> assigns, deletes |-> deletes, drops |-> {}]}

\* An assignment a[k] = v, a test k in a, a store to an attribute whose class
\* gets a __setattr__, or a property after the deletion of an attribute.
ItemStore == One("STORE_SUBSCR", item, {<<A, item, a>>, <<A, item, b>>}, {})
Membership == One("COMPARE_IN", item, {<<A, item, a>>, <<A, item, b>>}, {})
StoreWithHook == One("STORE_ATTR", p, {<<A, SetAttr, a>>}, {})
StoreThenDelete == One("STORE_ATTR", p, {<<A, p, getter>>}, {<<A, p>>})

\* A binary operation whose left operand gets the swapped selector of the right one.
ReflectedOfLeft ==
    {[code |-> (f :> <<Op("BINARY_OP", <<add, radd>>, {<<Of(A), Of(B)>>})>>) @@ (g :> <<>>),
      assigns |-> {<<B, radd, b>>, <<A, radd, b>>}, deletes |-> {}, drops |-> {}]}

\* A method called beside a store to an instance variable of the same name: the
\* class replaces the method, then has a property.
OffsetBesideMethod ==
    {[code |-> (f :> <<Op("LOAD_METHOD", <<p>>, {<<Of(A)>>}),
                       Op("STORE_ATTR", <<p>>, {<<With(A, p)>>})>>) @@ (g :> <<>>),
      assigns |-> {<<A, p, a>>, <<A, p, b>>, <<A, p, getter>>}, deletes |-> {}, drops |-> {}]}

\* One call o.m() that sees instances of C and T, of T and U, or of T only.
DiamondMro == (P :> <<P>>) @@ (T :> <<T, P>>) @@ (U :> <<U, P>>) @@ (C :> <<C, T, U, P>>)

Calls(types) ==
    {[code |-> (f :> <<Op("LOAD_METHOD", <<m>>, {<<Of(t)>> : t \in types})>>),
      assigns |-> {<<P, m, a>>} \cup {<<t, m, b>> : t \in {T, U, C}},
      deletes |-> {}, drops |-> {}]}

DiamondCalls == Calls({C, T})
SiblingCalls == Calls({T, U})
=============================================================================
