-------------------------- MODULE BinaryTreeProofs --------------------------
(***************************************************************************)
(* What add(), del(), search() and the destructor do to a BinaryTree.  As  *)
(* long as no node with one child was deleted from below another the nodes *)
(* form a tree: there are sets U[n] of the nodes under n, with n, that     *)
(* nest as the links do.  Each call is first described by its effect on    *)
(* the links (Grows, Prunes, Lifts, Replaces), for which a lemma gives the *)
(* new sets; the loops that descend end because the sets get smaller.      *)
(***************************************************************************)
EXTENDS BinaryTree, RecursionLemmas, FiniteSetTheorems

(* The nodes of the subtree at the end of a link.                          *)
Sub(U, x) == IF x = Null THEN {} ELSE U[x]

(* Nodes A form a tree in which U[n] is the set of the nodes under n, with *)
(* n: the links lead to its children and back ...                          *)
Linked(A, l, r, p, root) ==
  /\ root \in A /\ p[root] = Null
  /\ \A n \in A :
       /\ l[n] \in A \cup {Null} /\ (l[n] # Null => p[l[n]] = n)
       /\ r[n] \in A \cup {Null} /\ (r[n] # Null => p[r[n]] = n)
       /\ n # root => p[n] \in A /\ n \in {l[p[n]], r[p[n]]}

(* ... what is under a child is under its parent ...                       *)
Nested(A, l, r, p, root, U) ==
  /\ U[root] = A
  /\ \A n \in A :
       /\ U[n] \subseteq A /\ U[n] = {n} \cup Sub(U, l[n]) \cup Sub(U, r[n])
       /\ \A m \in U[n] : U[m] \subseteq U[n] /\ (m # n => p[m] \in U[n])
       /\ \A m \in A : m \in U[n] \/ n \in U[m] \/ U[m] \cap U[n] = {}

(* ... and the values are in order from left to right, none twice.         *)
Ordered(A, d, l, r, U) ==
  /\ \A n \in A : d[n] \in Keys
  /\ \A n \in A : /\ \A m \in Sub(U, l[n]) : d[m] < d[n]
                  /\ \A m \in Sub(U, r[n]) : d[m] > d[n]
  /\ \A m, n \in A : d[m] = d[n] => m = n

Shape(A, d, l, r, p, root, U) ==
  Linked(A, l, r, p, root) /\ Nested(A, l, r, p, root, U) /\ Ordered(A, d, l, r, U)

(* What the variables hold, and a node that is not in use links to none.   *)
TreeTypes ==
  /\ allocated \subseteq Addr
  /\ m_left \in [Addr -> Link] /\ m_right \in [Addr -> Link]
  /\ m_parent \in [Addr -> Link] /\ m_data \in [Addr -> Keys \cup {Null}]
  /\ m_root \in Link
  /\ \A a \in Addr \ allocated : m_left[a] = Null /\ m_right[a] = Null

(* The nodes in use hold the values added and not deleted.                 *)
Holds == /\ contents = {m_data[n] : n \in allocated}
         /\ IsFiniteSet(contents) /\ m_size = Cardinality(contents)

IsTree == \E U : Shape(allocated, m_data, m_left, m_right, m_parent, m_root, U)

WellFormed == TreeTypes /\ Holds /\ (allocated # {} => IsTree)

(* The invariant from which both theorems follow.                          *)
TreeInv == treeState = "alive" /\ ~handedOver => WellFormed

-----------------------------------------------------------------------------
(* The nodes on the two sides of a node are different ones.                *)
LEMMA Sides ==
  ASSUME NEW A \in SUBSET Addr, NEW d, NEW l, NEW r, NEW p, NEW root, NEW U,
         Shape(A, d, l, r, p, root, U), NEW n \in A
  PROVE  /\ Sub(U, l[n]) \cap Sub(U, r[n]) = {}
         /\ n \notin Sub(U, l[n]) \cup Sub(U, r[n])
         /\ l[n] = r[n] => l[n] = Null
<1>1. d[n] \in Int
  BY TreeAssumption DEF Shape, Ordered
<1>2. ~(d[n] < d[n]) /\ ~(d[n] > d[n])
  BY <1>1
<1>3. Sub(U, l[n]) \cup Sub(U, r[n]) \subseteq A
  BY DEF Shape, Nested
<1>4. ASSUME NEW m \in Sub(U, l[n]) \cap Sub(U, r[n]) PROVE FALSE
  <2>1. d[m] \in Int
    BY <1>3, TreeAssumption DEF Shape, Ordered
  <2>2. d[m] < d[n] /\ d[m] > d[n]
    BY DEF Shape, Ordered
  <2>3. QED  BY <1>1, <2>1, <2>2
<1>5. l[n] = r[n] => l[n] = Null
  <2>1. ASSUME l[n] = r[n], l[n] # Null PROVE FALSE
    <3>1. l[n] \in A
      BY <2>1 DEF Shape, Linked
    <3>2. l[n] \in U[l[n]]
      BY <3>1 DEF Shape, Nested
    <3>3. QED  BY <1>4, <2>1, <3>2 DEF Sub
  <2>2. QED  BY <2>1
<1>6. QED  BY <1>2, <1>4, <1>5 DEF Shape, Ordered

(* Nodes m that a search for t comes by on its way to n sent it the right  *)
(* way.                                                                    *)
Path(A, d, l, r, U, t, n) ==
  \A m \in A : /\ n \in Sub(U, l[m]) => t < d[m]
               /\ n \in Sub(U, r[m]) => t > d[m]

(* A leaf is added where the search for its value ends.                    *)
Grows(A, d, l, r, p, x, a, t, e, f, g, h) ==
  /\ t < d[x] => l[x] = Null
  /\ t > d[x] => r[x] = Null
  /\ \A n \in A : /\ e[n] = d[n] /\ h[n] = p[n]
                  /\ f[n] = IF n = x /\ t < d[x] THEN a ELSE l[n]
                  /\ g[n] = IF n = x /\ t > d[x] THEN a ELSE r[n]
  /\ e[a] = t /\ h[a] = x /\ f[a] = Null /\ g[a] = Null

LEMMA LeafKeeps ==
  ASSUME NEW A \in SUBSET Addr, NEW d, NEW l, NEW r, NEW p, NEW root, NEW U,
         Shape(A, d, l, r, p, root, U),
         NEW x \in A, NEW a \in Addr \ A, NEW t \in Keys,
         \A n \in A : d[n] # t, Path(A, d, l, r, U, t, x),
         NEW e, NEW f, NEW g, NEW h, Grows(A, d, l, r, p, x, a, t, e, f, g, h)
  PROVE  \E V : Shape(A \cup {a}, e, f, g, h, root, V)
<1>. USE DEF Grows, Path
<1>. DEFINE V == [n \in A \cup {a} |-> IF n = a THEN {a}
                                       ELSE IF x \in U[n] THEN U[n] \cup {a} ELSE U[n]]
<1>1. /\ \A n \in A : l[n] \in A \cup {Null} /\ r[n] \in A \cup {Null}
      /\ a \notin A /\ a # Null /\ Null \notin A
  BY TreeAssumption DEF Shape, Linked
<1>2. V[a] = {a} /\ \A n \in A : V[n] = IF x \in U[n] THEN U[n] \cup {a} ELSE U[n]
  BY <1>1
<1>. HIDE DEF V
<1>3. \A n \in A : d[n] \in Int /\ d[n] \in Keys
  BY TreeAssumption DEF Shape, Ordered
<1>4. /\ \A n \in A : /\ U[n] \subseteq A /\ U[n] = {n} \cup Sub(U, l[n]) \cup Sub(U, r[n])
                      /\ \A m \in U[n] : U[m] \subseteq U[n] /\ (m # n => p[m] \in U[n])
      /\ U[root] = A /\ root \in A
  BY DEF Shape, Nested, Linked
<1>5. t \in Int /\ (t < d[x] \/ t > d[x]) /\ ~(t < d[x] /\ t > d[x])
  <2>1. t \in Int
    BY TreeAssumption
  <2>2. d[x] \in Int /\ d[x] # t
    BY <1>3
  <2>3. QED  BY <2>1, <2>2
<1>s. \A n \in A : Sub(U, l[n]) \cap Sub(U, r[n]) = {} /\ n \notin Sub(U, l[n]) \cup Sub(U, r[n])
  BY Sides
<1>y. \A y \in A \cup {Null} :
        Sub(V, y) = IF x \in Sub(U, y) THEN Sub(U, y) \cup {a} ELSE Sub(U, y)
  BY <1>1, <1>2 DEF Sub
<1>6. ASSUME NEW n \in A
      PROVE  /\ Sub(V, f[n]) = IF x \in Sub(U, l[n]) \/ (n = x /\ t < d[x])
                               THEN Sub(U, l[n]) \cup {a} ELSE Sub(U, l[n])
             /\ Sub(V, g[n]) = IF x \in Sub(U, r[n]) \/ (n = x /\ t > d[x])
                               THEN Sub(U, r[n]) \cup {a} ELSE Sub(U, r[n])
  <2>1. f[n] = (IF n = x /\ t < d[x] THEN a ELSE l[n])
        /\ g[n] = (IF n = x /\ t > d[x] THEN a ELSE r[n])
    OBVIOUS
  <2>2. CASE n = x /\ t < d[x]
    <3>1. Sub(U, l[n]) = {} /\ Sub(V, f[n]) = {a}
      BY <1>1, <1>2, <2>1, <2>2 DEF Sub
    <3>2. g[n] = r[n] /\ x \notin Sub(U, r[n]) /\ ~(t > d[x])
      <4>1. ~(t > d[x])
        BY <1>5, <2>2
      <4>2. x \notin Sub(U, r[n])
        BY <1>s, <2>2
      <4>3. QED  BY <2>1, <4>1, <4>2
    <3>3. Sub(V, g[n]) = Sub(U, r[n])
      <4>1. r[n] \in A \cup {Null}
        BY <1>1
      <4>2. QED  BY <1>y, <3>2, <4>1
    <3>4. QED  BY <2>2, <3>1, <3>2, <3>3
  <2>3. CASE n = x /\ t > d[x]
    <3>1. Sub(U, r[n]) = {} /\ Sub(V, g[n]) = {a}
      BY <1>1, <1>2, <2>1, <2>3 DEF Sub
    <3>2. f[n] = l[n] /\ x \notin Sub(U, l[n]) /\ ~(t < d[x])
      <4>1. ~(t < d[x])
        BY <1>5, <2>3
      <4>2. x \notin Sub(U, l[n])
        BY <1>s, <2>3
      <4>3. QED  BY <2>1, <4>1, <4>2
    <3>3. Sub(V, f[n]) = Sub(U, l[n])
      <4>1. l[n] \in A \cup {Null}
        BY <1>1
      <4>2. QED  BY <1>y, <3>2, <4>1
    <3>4. QED  BY <2>3, <3>1, <3>2, <3>3
  <2>4. CASE n # x
    <3>1. f[n] = l[n] /\ g[n] = r[n]
      BY <2>1, <2>4
    <3>3. l[n] \in A \cup {Null} /\ r[n] \in A \cup {Null}
      BY <1>1
    <3>4. QED  BY <1>y, <2>4, <3>1, <3>3
  <2>5. QED  BY <1>5, <2>2, <2>3, <2>4
<1>7. Linked(A \cup {a}, f, g, h, root)
  <2>1. ASSUME NEW n \in A
        PROVE  /\ f[n] \in A \cup {a} \cup {Null} /\ (f[n] # Null => h[f[n]] = n)
               /\ g[n] \in A \cup {a} \cup {Null} /\ (g[n] # Null => h[g[n]] = n)
    <3>1. /\ l[n] # Null => l[n] \in A /\ p[l[n]] = n
          /\ r[n] # Null => r[n] \in A /\ p[r[n]] = n
      BY DEF Shape, Linked
    <3>2. QED  BY <1>1, <3>1
  <2>2. ASSUME NEW n \in A, n # root
        PROVE  h[n] \in A /\ n \in {f[h[n]], g[h[n]]}
    <3>1. p[n] \in A /\ n \in {l[p[n]], r[p[n]]} /\ h[n] = p[n]
      BY <2>2 DEF Shape, Linked
    <3>2. p[n] = x => (t < d[x] => n # l[p[n]]) /\ (t > d[x] => n # r[p[n]])
      BY <1>1
    <3>3. QED  BY <3>1, <3>2
  <2>3. h[a] \in A /\ a \in {f[h[a]], g[h[a]]}
    BY <1>5
  <2>4. root \in A /\ h[root] = Null
    BY DEF Shape, Linked
  <2>5. QED  BY <1>1, <2>1, <2>2, <2>3, <2>4 DEF Linked
<1>8. Nested(A \cup {a}, f, g, h, root, V)
  <2>1. V[root] = A \cup {a}
    BY <1>2, <1>4
  <2>2. ASSUME NEW n \in A
        PROVE  V[n] \subseteq A \cup {a} /\ V[n] = {n} \cup Sub(V, f[n]) \cup Sub(V, g[n])
    <3>1. U[n] = {n} \cup Sub(U, l[n]) \cup Sub(U, r[n]) /\ U[n] \subseteq A
      BY <1>4
    <3>2. x \in U[n] <=> \/ x \in Sub(U, l[n]) \/ (n = x /\ t < d[x])
                        \/ x \in Sub(U, r[n]) \/ (n = x /\ t > d[x])
      BY <3>1, <1>5
    <3>3. CASE x \in U[n]
      <4>1. V[n] = U[n] \cup {a}
        BY <1>2, <3>3
      <4>2. /\ Sub(V, f[n]) \in {Sub(U, l[n]), Sub(U, l[n]) \cup {a}}
            /\ Sub(V, g[n]) \in {Sub(U, r[n]), Sub(U, r[n]) \cup {a}}
        BY <1>6
      <4>3. a \in Sub(V, f[n]) \/ a \in Sub(V, g[n])
        BY <1>6, <3>2, <3>3
      <4>4. QED  BY <3>1, <4>1, <4>2, <4>3
    <3>4. CASE x \notin U[n]
      BY <1>2, <1>6, <3>1, <3>2, <3>4
    <3>5. QED  BY <3>3, <3>4
  <2>3. ASSUME NEW n \in A, NEW m \in V[n]
        PROVE  V[m] \subseteq V[n] /\ (m # n => h[m] \in V[n])
    <3>1. CASE m = a
      <4>1. x \in U[n] /\ a \in V[n] /\ x \in V[n]
        <5>1. a \notin U[n] /\ V[n] = IF x \in U[n] THEN U[n] \cup {a} ELSE U[n]
          BY <1>1, <1>2, <1>4
        <5>2. QED  BY <3>1, <5>1
      <4>2. QED  BY <1>2, <3>1, <4>1
    <3>2. CASE m # a
      <4>1. m \in U[n] /\ m \in A /\ U[n] \subseteq V[n]
        <5>1. U[n] \subseteq A /\ V[n] = IF x \in U[n] THEN U[n] \cup {a} ELSE U[n]
          BY <1>2, <1>4
        <5>2. QED  BY <3>2, <5>1
      <4>2. U[m] \subseteq U[n] /\ (m # n => p[m] \in U[n]) /\ h[m] = p[m]
        BY <1>4, <4>1
      <4>3. V[m] \subseteq V[n]
        BY <1>2, <4>1, <4>2
      <4>4. QED  BY <4>1, <4>2, <4>3
    <3>3. QED  BY <3>1, <3>2
  <2>4. V[a] = {a} /\ Sub(V, f[a]) = {} /\ Sub(V, g[a]) = {}
    BY <1>2 DEF Sub
  <2>5. ASSUME NEW n \in A, NEW m \in A
        PROVE  m \in V[n] \/ n \in V[m] \/ V[m] \cap V[n] = {}
    <3>1. m \in U[n] \/ n \in U[m] \/ U[m] \cap U[n] = {}
      BY DEF Shape, Nested
    <3>2. CASE m \in U[n] \/ n \in U[m]
      BY <1>2, <3>2
    <3>3. CASE U[m] \cap U[n] = {}
      <4>1. a \notin U[m] /\ a \notin U[n] /\ ~(x \in U[m] /\ x \in U[n])
        BY <1>1, <1>4, <3>3
      <4>2. /\ V[m] = U[m] \/ (x \in U[m] /\ V[m] = U[m] \cup {a})
            /\ V[n] = U[n] \/ (x \in U[n] /\ V[n] = U[n] \cup {a})
        BY <1>2
      <4>3. \A z \in V[m] : z \notin V[n]
        BY <3>3, <4>1, <4>2
      <4>4. QED  BY <4>3
    <3>4. QED  BY <3>1, <3>2, <3>3
  <2>6. ASSUME NEW n \in A
        PROVE  a \in V[n] \/ V[a] \cap V[n] = {}
    BY <1>2
  <2>7. QED  BY <2>1, <2>2, <2>3, <2>4, <2>5, <2>6 DEF Nested
<1>9. Ordered(A \cup {a}, e, f, g, V)
  <2>1. \A n \in A \cup {a} : e[n] \in Keys
    BY <1>3
  <2>2. ASSUME NEW n \in A
        PROVE  /\ \A m \in Sub(V, f[n]) : e[m] < e[n]
               /\ \A m \in Sub(V, g[n]) : e[m] > e[n]
    <3>1. /\ \A m \in Sub(U, l[n]) : m \in A /\ d[m] < d[n]
          /\ \A m \in Sub(U, r[n]) : m \in A /\ d[m] > d[n]
      BY <1>4 DEF Shape, Ordered
    <3>2. /\ \A m \in Sub(U, l[n]) : e[m] < e[n]
          /\ \A m \in Sub(U, r[n]) : e[m] > e[n]
      BY <3>1
    <3>3. /\ x \in Sub(U, l[n]) \/ (n = x /\ t < d[x]) => e[a] < e[n]
          /\ x \in Sub(U, r[n]) \/ (n = x /\ t > d[x]) => e[a] > e[n]
      OBVIOUS
    <3>4. \A m \in Sub(V, f[n]) : m \in Sub(U, l[n]) \/
             (m = a /\ (x \in Sub(U, l[n]) \/ (n = x /\ t < d[x])))
      <4>1. CASE x \in Sub(U, l[n]) \/ (n = x /\ t < d[x])
        <5>1. Sub(V, f[n]) = Sub(U, l[n]) \cup {a}
          BY <1>6, <4>1, Zenon
        <5>2. QED  BY <4>1, <5>1, Zenon
      <4>2. CASE ~(x \in Sub(U, l[n]) \/ (n = x /\ t < d[x]))
        <5>1. Sub(V, f[n]) = Sub(U, l[n])
          BY <1>6, <4>2, Zenon
        <5>2. QED  BY <5>1, Zenon
      <4>3. QED  BY <4>1, <4>2, Zenon
    <3>5. \A m \in Sub(V, g[n]) : m \in Sub(U, r[n]) \/
             (m = a /\ (x \in Sub(U, r[n]) \/ (n = x /\ t > d[x])))
      <4>1. CASE x \in Sub(U, r[n]) \/ (n = x /\ t > d[x])
        <5>1. Sub(V, g[n]) = Sub(U, r[n]) \cup {a}
          BY <1>6, <4>1, Zenon
        <5>2. QED  BY <4>1, <5>1, Zenon
      <4>2. CASE ~(x \in Sub(U, r[n]) \/ (n = x /\ t > d[x]))
        <5>1. Sub(V, g[n]) = Sub(U, r[n])
          BY <1>6, <4>2, Zenon
        <5>2. QED  BY <5>1, Zenon
      <4>3. QED  BY <4>1, <4>2, Zenon
    <3>6. QED  BY <3>2, <3>3, <3>4, <3>5
  <2>3. Sub(V, f[a]) = {} /\ Sub(V, g[a]) = {}
    BY DEF Sub
  <2>4. \A m, n \in A \cup {a} : e[m] = e[n] => m = n
    <3>1. \A m, n \in A : d[m] = d[n] => m = n
      BY DEF Shape, Ordered
    <3>2. QED  BY <3>1
  <2>5. QED  BY <2>1, <2>2, <2>3, <2>4 DEF Ordered
<1>10. QED  BY <1>7, <1>8, <1>9 DEF Shape

(* A node without children is taken away from below another.               *)
Prunes(A, d, l, r, p, c, e, f, g, h) ==
  /\ l[c] = Null /\ r[c] = Null
  /\ \A n \in A \ {c} : /\ e[n] = d[n] /\ h[n] = p[n]
                        /\ f[n] = IF l[n] = c THEN Null ELSE l[n]
                        /\ g[n] = IF r[n] = c THEN Null ELSE r[n]

LEMMA LeafLeaves ==
  ASSUME NEW A \in SUBSET Addr, NEW d, NEW l, NEW r, NEW p, NEW root, NEW U,
         Shape(A, d, l, r, p, root, U),
         NEW c \in A, c # root,
         NEW e, NEW f, NEW g, NEW h, Prunes(A, d, l, r, p, c, e, f, g, h)
  PROVE  \E V : Shape(A \ {c}, e, f, g, h, root, V)
<1>. USE DEF Prunes
<1>. DEFINE V == [n \in A \ {c} |-> U[n] \ {c}]
<1>1. /\ Null \notin A /\ root \in A /\ U[root] = A
      /\ \A n \in A : /\ l[n] \in A \cup {Null} /\ r[n] \in A \cup {Null}
                      /\ l[n] # Null => p[l[n]] = n
                      /\ r[n] # Null => p[r[n]] = n
                      /\ n # root => p[n] \in A /\ n \in {l[p[n]], r[p[n]]}
  BY TreeAssumption DEF Shape, Linked, Nested
<1>2. \A n \in A \ {c} : V[n] = U[n] \ {c}
  OBVIOUS
<1>. HIDE DEF V
<1>3. \A n \in A : /\ U[n] \subseteq A /\ U[n] = {n} \cup Sub(U, l[n]) \cup Sub(U, r[n])
                   /\ \A m \in U[n] : U[m] \subseteq U[n] /\ (m # n => p[m] \in U[n])
  BY DEF Shape, Nested
<1>4. U[c] = {c}
  BY <1>3 DEF Sub
<1>5. \A n \in A : p[n] # c \/ n = root
  BY <1>1
<1>6. \A y \in A \cup {Null} : Sub(V, IF y = c THEN Null ELSE y) = Sub(U, y) \ {c}
  BY <1>1, <1>2, <1>4 DEF Sub
<1>7. ASSUME NEW n \in A \ {c}
      PROVE  Sub(V, f[n]) = Sub(U, l[n]) \ {c} /\ Sub(V, g[n]) = Sub(U, r[n]) \ {c}
  BY <1>1, <1>6
<1>8. Linked(A \ {c}, f, g, h, root)
  <2>1. root \in A \ {c} /\ h[root] = Null
    BY <1>1 DEF Shape, Linked
  <2>2. ASSUME NEW n \in A \ {c}
        PROVE  /\ f[n] \in (A \ {c}) \cup {Null} /\ (f[n] # Null => h[f[n]] = n)
               /\ g[n] \in (A \ {c}) \cup {Null} /\ (g[n] # Null => h[g[n]] = n)
    <3>1. f[n] = Null \/ (f[n] = l[n] /\ l[n] # Null /\ l[n] # c)
      OBVIOUS
    <3>2. g[n] = Null \/ (g[n] = r[n] /\ r[n] # Null /\ r[n] # c)
      OBVIOUS
    <3>3. \A y \in A \ {c} : p[y] = n => h[y] = n
      OBVIOUS
    <3>4. f[n] = Null \/ (f[n] \in A \ {c} /\ h[f[n]] = n)
      BY <1>1, <3>1, <3>3
    <3>5. g[n] = Null \/ (g[n] \in A \ {c} /\ h[g[n]] = n)
      BY <1>1, <3>2, <3>3
    <3>6. QED  BY <3>4, <3>5, Zenon
  <2>3. ASSUME NEW n \in A \ {c}, n # root
        PROVE  h[n] \in A \ {c} /\ n \in {f[h[n]], g[h[n]]}
    BY <1>1, <1>5, <2>3
  <2>4. QED  BY <2>1, <2>2, <2>3 DEF Linked
<1>9. Nested(A \ {c}, f, g, h, root, V)
  <2>1. V[root] = A \ {c}
    BY <1>1, <1>2
  <2>2. ASSUME NEW n \in A \ {c}
        PROVE  V[n] \subseteq A \ {c} /\ V[n] = {n} \cup Sub(V, f[n]) \cup Sub(V, g[n])
    BY <1>2, <1>3, <1>7
  <2>3. ASSUME NEW n \in A \ {c}, NEW m \in V[n]
        PROVE  V[m] \subseteq V[n] /\ (m # n => h[m] \in V[n])
    <3>1. m \in U[n] /\ m \in A \ {c}
      BY <1>2, <1>3
    <3>2. m # n => m # root
      BY <1>1, <1>3, <3>1 DEF Shape, Linked
    <3>3. m # n => p[m] \in U[n] /\ p[m] # c
      BY <1>3, <1>5, <3>1, <3>2
    <3>4. QED  BY <1>2, <1>3, <3>1, <3>3
  <2>4. ASSUME NEW n \in A \ {c}, NEW m \in A \ {c}
        PROVE  m \in V[n] \/ n \in V[m] \/ V[m] \cap V[n] = {}
    <3>1. m \in U[n] \/ n \in U[m] \/ U[m] \cap U[n] = {}
      BY DEF Shape, Nested
    <3>2. QED  BY <1>2, <3>1
  <2>5. QED  BY <2>1, <2>2, <2>3, <2>4 DEF Nested
<1>10. Ordered(A \ {c}, e, f, g, V)
  <2>1. /\ \A n \in A : d[n] \in Keys
        /\ \A m, n \in A : d[m] = d[n] => m = n
    BY DEF Shape, Ordered
  <2>2. ASSUME NEW n \in A \ {c}
        PROVE  /\ \A m \in Sub(V, f[n]) : e[m] < e[n]
               /\ \A m \in Sub(V, g[n]) : e[m] > e[n]
    <3>1. /\ \A m \in Sub(U, l[n]) : m \in A /\ d[m] < d[n]
          /\ \A m \in Sub(U, r[n]) : m \in A /\ d[m] > d[n]
      BY <1>3 DEF Shape, Ordered
    <3>2. QED  BY <1>7, <3>1
  <2>3. QED  BY <2>1, <2>2 DEF Ordered
<1>11. QED  BY <1>8, <1>9, <1>10 DEF Shape

(* The only child of the root takes its place.                             *)
Lifts(A, d, l, r, p, root, x, e, f, g, h) ==
  /\ {l[root], r[root]} = {Null, x}
  /\ \A n \in A \ {root} : /\ e[n] = d[n] /\ f[n] = l[n] /\ g[n] = r[n]
                           /\ h[n] = IF n = x THEN Null ELSE p[n]

LEMMA RootLeaves ==
  ASSUME NEW A \in SUBSET Addr, NEW d, NEW l, NEW r, NEW p, NEW root, NEW U,
         Shape(A, d, l, r, p, root, U),
         NEW x \in A,
         NEW e, NEW f, NEW g, NEW h, Lifts(A, d, l, r, p, root, x, e, f, g, h)
  PROVE  \E V : Shape(A \ {root}, e, f, g, h, x, V)
<1>. USE DEF Lifts
<1>1. /\ Null \notin A /\ root \in A /\ U[root] = A /\ p[root] = Null
      /\ \A n \in A : /\ l[n] \in A \cup {Null} /\ r[n] \in A \cup {Null}
                      /\ l[n] # Null => p[l[n]] = n
                      /\ r[n] # Null => p[r[n]] = n
                      /\ n # root => p[n] \in A /\ n \in {l[p[n]], r[p[n]]}
  BY TreeAssumption DEF Shape, Linked, Nested
<1>2. \A n \in A : /\ U[n] \subseteq A /\ U[n] = {n} \cup Sub(U, l[n]) \cup Sub(U, r[n])
                   /\ \A m \in U[n] : U[m] \subseteq U[n] /\ (m # n => p[m] \in U[n])
  BY DEF Shape, Nested
<1>3. x # root /\ U[x] = A \ {root} /\ p[x] = root
  <2>1. \A n \in A : n \notin Sub(U, l[n]) \cup Sub(U, r[n])
    BY Sides
  <2>2. Sub(U, l[root]) \cup Sub(U, r[root]) = U[x]
    BY <1>1 DEF Sub
  <2>3. x \in U[x]
    BY <1>2
  <2>4. U[root] = {root} \cup U[x] /\ root \notin U[x]
    BY <1>1, <1>2, <2>1, <2>2
  <2>5. QED  BY <1>1, <2>3, <2>4
<1>4. \A n \in A \ {root} : root \notin U[n]
  BY <1>1, <1>2
<1>5. \A n \in A \ {root} : p[n] = root => n = x
  BY <1>1
<1>6. Linked(A \ {root}, f, g, h, x)
  <2>1. ASSUME NEW n \in A \ {root}
        PROVE  /\ f[n] \in (A \ {root}) \cup {Null} /\ (f[n] # Null => h[f[n]] = n)
               /\ g[n] \in (A \ {root}) \cup {Null} /\ (g[n] # Null => h[g[n]] = n)
    <3>1. \A y \in A : p[y] = n => y \in A \ {root} /\ h[y] = n
      BY <1>1, <1>3
    <3>2. f[n] = l[n] /\ g[n] = r[n] /\ n \in A
      OBVIOUS
    <3>3. f[n] = Null \/ (f[n] \in A /\ p[f[n]] = n)
      BY <1>1, <3>2
    <3>4. g[n] = Null \/ (g[n] \in A /\ p[g[n]] = n)
      BY <1>1, <3>2
    <3>5. f[n] = Null \/ (f[n] \in A \ {root} /\ h[f[n]] = n)
      BY <3>1, <3>3
    <3>6. g[n] = Null \/ (g[n] \in A \ {root} /\ h[g[n]] = n)
      BY <3>1, <3>4
    <3>7. QED  BY <3>5, <3>6, Zenon
  <2>2. ASSUME NEW n \in A \ {root}, n # x
        PROVE  h[n] \in A \ {root} /\ n \in {f[h[n]], g[h[n]]}
    BY <1>1, <1>5, <2>2
  <2>3. QED  BY <1>3, <2>1, <2>2 DEF Linked
<1>7. Nested(A \ {root}, f, g, h, x, U)
  <2>1. ASSUME NEW n \in A \ {root}
        PROVE  U[n] \subseteq A \ {root} /\ U[n] = {n} \cup Sub(U, f[n]) \cup Sub(U, g[n])
    BY <1>2, <1>4
  <2>2. ASSUME NEW n \in A \ {root}, NEW m \in U[n]
        PROVE  U[m] \subseteq U[n] /\ (m # n => h[m] \in U[n])
    <3>1. m \in A \ {root} /\ U[m] \subseteq U[n] /\ (m # n => p[m] \in U[n])
      BY <1>2, <1>4
    <3>2. m # n => m # x
      BY <1>3, <1>4, <3>1
    <3>3. QED  BY <3>1, <3>2
  <2>3. \A n, m \in A \ {root} : m \in U[n] \/ n \in U[m] \/ U[m] \cap U[n] = {}
    BY DEF Shape, Nested
  <2>4. QED  BY <1>3, <2>1, <2>2, <2>3 DEF Nested
<1>8. Ordered(A \ {root}, e, f, g, U)
  <2>1. /\ \A n \in A : d[n] \in Keys
        /\ \A m, n \in A : d[m] = d[n] => m = n
    BY DEF Shape, Ordered
  <2>2. ASSUME NEW n \in A \ {root}
        PROVE  /\ \A m \in Sub(U, f[n]) : e[m] < e[n]
               /\ \A m \in Sub(U, g[n]) : e[m] > e[n]
    <3>1. Sub(U, l[n]) \cup Sub(U, r[n]) \subseteq A \ {root}
      BY <1>2, <1>4
    <3>2. /\ \A m \in Sub(U, l[n]) : m \in A \ {root} /\ d[m] < d[n]
          /\ \A m \in Sub(U, r[n]) : m \in A \ {root} /\ d[m] > d[n]
      BY <3>1 DEF Shape, Ordered
    <3>3. QED  BY <3>2
  <2>3. QED  BY <2>1, <2>2 DEF Ordered
<1>9. QED  BY <1>6, <1>7, <1>8 DEF Shape

(* No node under another is above it.                                      *)
Below(A, p, root, U, c) ==
  /\ c \in U[c]
  /\ \A n \in U[c] \ {c} : n \in A /\ c \notin U[n] /\ p[n] \in U[c] /\ n # root

LEMMA Under ==
  ASSUME NEW A \in SUBSET Addr, NEW d, NEW l, NEW r, NEW p, NEW root, NEW U,
         Shape(A, d, l, r, p, root, U), NEW c \in A
  PROVE  Below(A, p, root, U, c)
<1>1. /\ \A n \in A : /\ U[n] \subseteq A /\ U[n] = {n} \cup Sub(U, l[n]) \cup Sub(U, r[n])
                      /\ \A m \in U[n] : U[m] \subseteq U[n] /\ (m # n => p[m] \in U[n])
      /\ Null \notin A /\ p[root] = Null
      /\ l[c] \in A \cup {Null} /\ r[c] \in A \cup {Null}
  BY TreeAssumption DEF Shape, Nested, Linked
<1>2. ASSUME NEW n \in U[c] \ {c}
      PROVE  n \in A /\ c \notin U[n] /\ p[n] \in U[c] /\ n # root
  <2>1. n \in A /\ p[n] \in U[c] /\ n # root
    BY <1>1
  <2>2. c \notin Sub(U, l[c]) /\ c \notin Sub(U, r[c])
    BY Sides
  <2>3. n \in Sub(U, l[c]) \/ n \in Sub(U, r[c])
    BY <1>1
  <2>4. \A y \in A : n \in U[y] => U[n] \subseteq U[y]
    BY <1>1
  <2>5. \A y \in A \cup {Null} : n \in Sub(U, y) => U[n] \subseteq Sub(U, y)
    BY <2>4 DEF Sub
  <2>6. U[n] \subseteq Sub(U, l[c]) \/ U[n] \subseteq Sub(U, r[c])
    BY <1>1, <2>3, <2>5
  <2>7. QED  BY <2>1, <2>2, <2>6
<1>3. c \in U[c]
  BY <1>1
<1>4. QED  BY <1>2, <1>3 DEF Below

(* What is known of the nodes and links of a tree.                         *)
TreeFacts(A, l, r, p, root, U) ==
  /\ Null \notin A /\ root \in A /\ U[root] = A /\ p[root] = Null
  /\ \A n \in A : /\ l[n] \in A \cup {Null} /\ r[n] \in A \cup {Null}
                  /\ l[n] # Null => p[l[n]] = n
                  /\ r[n] # Null => p[r[n]] = n
                  /\ n # root => p[n] \in A /\ n \in {l[p[n]], r[p[n]]}
  /\ \A n \in A : /\ U[n] \subseteq A /\ U[n] = {n} \cup Sub(U, l[n]) \cup Sub(U, r[n])
                  /\ \A m \in U[n] : U[m] \subseteq U[n] /\ (m # n => p[m] \in U[n])
                  /\ \A m \in A : m \in U[n] \/ n \in U[m] \/ U[m] \cap U[n] = {}
  /\ \A n \in A : /\ n \in U[n]
                  /\ \A m \in U[n] \ {n} : m \in A /\ n \notin U[m] /\ p[m] \in U[n] /\ m # root
  /\ \A n \in A : /\ Sub(U, l[n]) \cap Sub(U, r[n]) = {}
                  /\ n \notin Sub(U, l[n]) \cup Sub(U, r[n])
                  /\ l[n] = r[n] => l[n] = Null

(* All of that holds of a tree.                                            *)
LEMMA ShapeFacts ==
  ASSUME NEW A \in SUBSET Addr, NEW d, NEW l, NEW r, NEW p, NEW root, NEW U,
         Shape(A, d, l, r, p, root, U)
  PROVE  TreeFacts(A, l, r, p, root, U)
<1>0. \A n \in A : Below(A, p, root, U, n)
  BY Under, Zenon
<1>1. \A n \in A : /\ n \in U[n]
                   /\ \A m \in U[n] \ {n} : m \in A /\ n \notin U[m] /\ p[m] \in U[n] /\ m # root
  BY <1>0 DEF Below
<1>2. \A n \in A : /\ Sub(U, l[n]) \cap Sub(U, r[n]) = {}
                   /\ n \notin Sub(U, l[n]) \cup Sub(U, r[n])
                   /\ l[n] = r[n] => l[n] = Null
  BY Sides
<1>3. Null \notin A
  BY TreeAssumption
<1>4. QED  BY <1>1, <1>2, <1>3 DEF Shape, Linked, Nested, TreeFacts

(* The least node x of the right subtree of a node c with two children.    *)
LeastOnRight(A, l, r, p, U, c, x) ==
  /\ x \in A /\ x # c /\ x \in U[c] /\ x \notin U[l[c]] /\ x # l[c]
  /\ U[x] \subseteq U[r[c]] /\ x \in U[x] /\ c \notin U[x] /\ U[x] = {x} \cup Sub(U, r[x])
  /\ x \notin Sub(U, r[x])
  /\ p[x] \in U[c] /\ p[x] \in A /\ (p[x] = c <=> x = r[c])
  /\ x # r[c] => p[x] \in U[r[c]] /\ l[p[x]] = x
  /\ \A n \in A : /\ l[n] = x => n = p[x] /\ n # c /\ x # r[c]
                  /\ r[n] = x => n = c

(* It has no left child, and its parent reaches it by m_left unless it is  *)
(* the right child of c itself.                                            *)
LEMMA LeastFacts ==
  ASSUME NEW A \in SUBSET Addr, NEW d, NEW l, NEW r, NEW p, NEW root, NEW U,
         Shape(A, d, l, r, p, root, U),
         NEW c \in A, l[c] # Null, r[c] # Null,
         NEW x \in U[r[c]], l[x] = Null, \A m \in U[r[c]] \ {x} : d[m] > d[x]
  PROVE  LeastOnRight(A, l, r, p, U, c, x)
<1>0. TreeFacts(A, l, r, p, root, U)
  BY ShapeFacts, Zenon
<1>1. /\ Null \notin A /\ root \in A /\ U[root] = A /\ p[root] = Null
      /\ \A n \in A : /\ l[n] \in A \cup {Null} /\ r[n] \in A \cup {Null}
                      /\ l[n] # Null => p[l[n]] = n
                      /\ r[n] # Null => p[r[n]] = n
                      /\ n # root => p[n] \in A /\ n \in {l[p[n]], r[p[n]]}
  BY <1>0 DEF TreeFacts
<1>2. \A n \in A : /\ U[n] \subseteq A /\ U[n] = {n} \cup Sub(U, l[n]) \cup Sub(U, r[n])
                   /\ \A m \in U[n] : U[m] \subseteq U[n] /\ (m # n => p[m] \in U[n])
                   /\ \A m \in A : m \in U[n] \/ n \in U[m] \/ U[m] \cap U[n] = {}
  BY <1>0 DEF TreeFacts
<1>a. \A n \in A : /\ n \in U[n]
                   /\ \A m \in U[n] \ {n} : m \in A /\ n \notin U[m] /\ p[m] \in U[n] /\ m # root
  BY <1>0 DEF TreeFacts
<1>b. \A n \in A : /\ Sub(U, l[n]) \cap Sub(U, r[n]) = {}
                   /\ n \notin Sub(U, l[n]) \cup Sub(U, r[n])
                   /\ l[n] = r[n] => l[n] = Null
  BY <1>0 DEF TreeFacts
<1>3. /\ l[c] \in A /\ r[c] \in A /\ p[l[c]] = c /\ p[r[c]] = c /\ l[c] # r[c]
      /\ U[c] = {c} \cup U[l[c]] \cup U[r[c]]
      /\ c \notin U[l[c]] /\ c \notin U[r[c]] /\ U[l[c]] \cap U[r[c]] = {}
  BY <1>1, <1>2, <1>b DEF Sub
<1>4. l[c] \in U[l[c]] /\ r[c] \in U[r[c]] /\ c \in U[c] /\ l[c] # c /\ r[c] # c
  BY <1>3, <1>a
<1>5. /\ x \in A /\ x # c /\ x \in U[c] /\ x \notin U[l[c]] /\ x # l[c]
      /\ U[x] \subseteq U[r[c]] /\ x \in U[x] /\ c \notin U[x] /\ U[x] = {x} \cup Sub(U, r[x])
      /\ x \notin Sub(U, r[x])
  <2>1. x \in A /\ x # c /\ x \in U[c] /\ x \notin U[l[c]] /\ x # l[c] /\ U[x] \subseteq U[r[c]]
    BY <1>2, <1>3, <1>4
  <2>2. Sub(U, l[x]) = {}
    BY DEF Sub
  <2>3. QED  BY <1>2, <1>3, <1>a, <1>b, <2>1, <2>2
<1>6. p[x] \in U[c] /\ p[x] \in A /\ (p[x] = c <=> x = r[c])
  <2>1. p[x] \in U[c] /\ x # root
    BY <1>a, <1>5
  <2>2. p[x] \in A /\ x \in {l[p[x]], r[p[x]]}
    BY <1>1, <1>5, <2>1
  <2>3. QED  BY <1>3, <1>5, <2>1, <2>2
<1>7. x # r[c] => p[x] \in U[r[c]] /\ l[p[x]] = x
  <2>1. ASSUME x # r[c] PROVE p[x] \in U[r[c]] /\ l[p[x]] = x
    <3>1. p[x] \in U[r[c]] /\ x \in {l[p[x]], r[p[x]]}
      BY <1>1, <1>2, <1>3, <1>5, <1>a, <2>1
    <3>2. CASE r[p[x]] = x
      <4>1. x \in Sub(U, r[p[x]])
        BY <1>1, <1>5, <3>2 DEF Sub
      <4>2. d[x] > d[p[x]]
        BY <1>6, <4>1 DEF Shape, Ordered
      <4>3. p[x] # x
        BY <1>1, <1>5, <1>6, <1>b, <3>2, <4>1
      <4>4. d[p[x]] > d[x]
        BY <3>1, <4>3
      <4>5. d[x] \in Int /\ d[p[x]] \in Int
        BY <1>5, <1>6, TreeAssumption DEF Shape, Ordered
      <4>6. QED  BY <4>2, <4>4, <4>5
    <3>3. QED  BY <3>1, <3>2
  <2>2. QED  BY <2>1
<1>8. \A n \in A : /\ l[n] = x => n = p[x] /\ n # c /\ x # r[c]
                   /\ r[n] = x => n = c
  <2>1. ASSUME NEW n \in A, l[n] = x PROVE n = p[x] /\ n # c /\ x # r[c]
    BY <1>1, <1>5, <1>6, <2>1
  <2>2. ASSUME NEW n \in A, r[n] = x PROVE n = c
    <3>1. n = p[x]
      BY <1>1, <1>5, <2>2
    <3>2. x # r[c] => l[n] = r[n]
      BY <1>7, <2>2, <3>1
    <3>3. QED  BY <1>1, <1>5, <1>6, <1>b, <2>2, <3>1, <3>2
  <2>3. QED  BY <2>1, <2>2
<1>9. QED  BY <1>5, <1>6, <1>7, <1>8 DEF LeastOnRight

(* The least node of the right subtree takes the place of a node with two  *)
(* children.                                                               *)
Replaces(A, d, l, r, p, c, x, s, e, f, g, h) ==
  /\ l[c] # Null /\ r[c] # Null /\ l[x] = Null
  /\ s = IF x = r[c] THEN r[x] ELSE r[c]
  /\ \A n \in A \ {c} :
       /\ e[n] = d[n]
       /\ f[n] = IF n = x THEN l[c] ELSE IF l[n] = x THEN r[x]
                 ELSE IF l[n] = c THEN x ELSE l[n]
       /\ g[n] = IF n = x THEN s ELSE IF r[n] = c THEN x ELSE r[n]
       /\ h[n] = IF n = x THEN p[c] ELSE IF n \in {l[c], s} THEN x
                 ELSE IF n = r[x] THEN p[x] ELSE p[n]

LEMMA SuccessorStandsIn ==
  ASSUME NEW A \in SUBSET Addr, NEW d, NEW l, NEW r, NEW p, NEW root, NEW U,
         Shape(A, d, l, r, p, root, U),
         NEW c \in A, NEW x \in U[r[c]], \A m \in U[r[c]] \ {x} : d[m] > d[x], NEW s,
         NEW e, NEW f, NEW g, NEW h, Replaces(A, d, l, r, p, c, x, s, e, f, g, h)
  PROVE  \E V : Shape(A \ {c}, e, f, g, h, IF root = c THEN x ELSE root, V)
<1>. USE DEF Replaces
<1>. DEFINE V == [n \in A \ {c} |-> IF n = x THEN U[c] \ {c}
                                   ELSE IF n \in U[c] THEN U[n] \ {x} ELSE U[n] \ {c}]
<1>0. TreeFacts(A, l, r, p, root, U)
  BY ShapeFacts, Zenon
<1>1. /\ Null \notin A /\ root \in A /\ U[root] = A /\ p[root] = Null
      /\ \A n \in A : /\ l[n] \in A \cup {Null} /\ r[n] \in A \cup {Null}
                      /\ l[n] # Null => p[l[n]] = n
                      /\ r[n] # Null => p[r[n]] = n
                      /\ n # root => p[n] \in A /\ n \in {l[p[n]], r[p[n]]}
  BY <1>0 DEF TreeFacts
<1>2. \A n \in A : /\ U[n] \subseteq A /\ U[n] = {n} \cup Sub(U, l[n]) \cup Sub(U, r[n])
                   /\ \A m \in U[n] : U[m] \subseteq U[n] /\ (m # n => p[m] \in U[n])
                   /\ \A m \in A : m \in U[n] \/ n \in U[m] \/ U[m] \cap U[n] = {}
  BY <1>0 DEF TreeFacts
<1>a. \A n \in A : /\ n \in U[n]
                   /\ \A m \in U[n] \ {n} : m \in A /\ n \notin U[m] /\ p[m] \in U[n] /\ m # root
  BY <1>0 DEF TreeFacts
<1>b. \A n \in A : /\ Sub(U, l[n]) \cap Sub(U, r[n]) = {}
                   /\ n \notin Sub(U, l[n]) \cup Sub(U, r[n])
                   /\ l[n] = r[n] => l[n] = Null
  BY <1>0 DEF TreeFacts
<1>3. /\ l[c] \in A /\ r[c] \in A /\ p[l[c]] = c /\ p[r[c]] = c /\ l[c] # r[c]
      /\ U[c] = {c} \cup U[l[c]] \cup U[r[c]]
      /\ c \notin U[l[c]] /\ c \notin U[r[c]] /\ U[l[c]] \cap U[r[c]] = {}
  BY <1>1, <1>2, <1>b DEF Sub
<1>4. l[c] \in U[l[c]] /\ r[c] \in U[r[c]] /\ c \in U[c] /\ l[c] # c /\ r[c] # c
  BY <1>3, <1>a
<1>k. LeastOnRight(A, l, r, p, U, c, x)
  BY LeastFacts
<1>5. /\ x \in A /\ x # c /\ x \in U[c] /\ x \notin U[l[c]] /\ x # l[c]
      /\ U[x] \subseteq U[r[c]] /\ x \in U[x] /\ c \notin U[x] /\ U[x] = {x} \cup Sub(U, r[x])
      /\ x \notin Sub(U, r[x])
  BY <1>k DEF LeastOnRight
<1>6. p[x] \in U[c] /\ p[x] \in A /\ (p[x] = c <=> x = r[c])
  BY <1>k DEF LeastOnRight
<1>7. x # r[c] => p[x] \in U[r[c]] /\ l[p[x]] = x
  BY <1>k DEF LeastOnRight
<1>8. \A n \in A : /\ l[n] = x => n = p[x] /\ n # c /\ x # r[c]
                   /\ r[n] = x => n = c
  BY <1>k DEF LeastOnRight
<1>9. \A n \in A \ {c} : \A y \in {l[n], r[n]} \ {Null} :
        /\ y \in A /\ p[y] = n
        /\ y = c => n \notin U[c]
        /\ y # c => (y \in U[c] <=> n \in U[c])
  <2>1. ASSUME NEW n \in A \ {c}, NEW y \in {l[n], r[n]} \ {Null}
        PROVE  /\ y \in A /\ p[y] = n
               /\ y = c => n \notin U[c]
               /\ y # c => (y \in U[c] <=> n \in U[c])
    <3>1. y \in A /\ p[y] = n
      BY <1>1
    <3>2. y \in U[n] /\ n # y
      <4>1. y \in Sub(U, y)
        BY <1>a, <3>1 DEF Sub
      <4>2. QED  BY <1>2, <1>b, <4>1
    <3>3. y # c /\ y \in U[c] => n \in U[c]
      BY <1>2, <3>1
    <3>4. n \in U[c] => y \in U[c]
      BY <1>2, <3>2
    <3>5. y = c => n \notin U[c]
      BY <1>a, <3>2
    <3>6. QED  BY <3>1, <3>3, <3>4, <3>5
  <2>2. QED  BY <2>1
<1>10. /\ r[x] # Null => /\ r[x] \in A /\ p[r[x]] = x /\ r[x] \in U[c] \ {c}
                         /\ r[x] # x /\ r[x] # l[c]
       /\ s # Null => /\ s \in A /\ s \in U[c] \ {c} /\ s # x /\ s # l[c]
                      /\ p[s] = IF x = r[c] THEN x ELSE c
  <2>1. r[x] # Null => /\ r[x] \in A /\ p[r[x]] = x /\ r[x] \in U[c] \ {c} /\ r[x] # x
    BY <1>5, <1>8, <1>9
  <2>2. QED  BY <1>3, <1>4, <1>5, <2>1
<1>11. \A n \in A \ {c} : V[n] = IF n = x THEN U[c] \ {c}
                             ELSE IF n \in U[c] THEN U[n] \ {x} ELSE U[n] \ {c}
  OBVIOUS
<1>. HIDE DEF V
<1>c. r[x] # Null => V[r[x]] = U[r[x]]
  <2>1. ASSUME r[x] # Null PROVE V[r[x]] = U[r[x]]
    <3>1. r[x] \in A \ {c} /\ r[x] # x /\ r[x] \in U[c]
      BY <1>10, <2>1
    <3>2. V[r[x]] = U[r[x]] \ {x}
      BY <1>11, <3>1
    <3>3. x \notin U[r[x]]
      BY <1>5, <2>1 DEF Sub
    <3>4. QED  BY <3>2, <3>3
  <2>2. QED  BY <2>1
<1>12. Sub(V, f[x]) = Sub(U, l[c]) /\ Sub(V, g[x]) = Sub(U, r[c]) \ {x}
  <2>1. f[x] = l[c] /\ g[x] = s
    BY <1>5
  <2>2. V[l[c]] = U[l[c]]
    <3>1. l[c] \in A \ {c} /\ l[c] # x /\ l[c] \in U[c]
      BY <1>3, <1>4, <1>5
    <3>2. V[l[c]] = U[l[c]] \ {x}
      BY <1>11, <3>1
    <3>3. QED  BY <1>5, <3>2
  <2>3. x # r[c] => V[r[c]] = U[r[c]] \ {x}
    BY <1>2, <1>3, <1>4, <1>11
  <2>4. r[x] # Null => V[r[x]] = U[r[x]] /\ U[r[x]] = U[x] \ {x}
    BY <1>5, <1>c DEF Sub
  <2>5. r[x] = Null => U[x] = {x}
    BY <1>5 DEF Sub
  <2>6. Sub(V, s) = U[r[c]] \ {x}
    BY <1>1, <1>3, <2>3, <2>4, <2>5 DEF Sub
  <2>7. QED  BY <1>1, <1>3, <2>1, <2>2, <2>6 DEF Sub
<1>13. ASSUME NEW n \in A \ {c}, n # x, n \in U[c]
       PROVE  /\ V[n] = U[n] \ {x}
              /\ Sub(V, f[n]) = Sub(U, l[n]) \ {x} /\ Sub(V, g[n]) = Sub(U, r[n]) \ {x}
  <2>1. V[n] = U[n] \ {x}
    BY <1>11, <1>13
  <2>2. \A y \in {l[n], r[n]} \ {Null} : y \in A \ {c} /\ y \in U[c]
    BY <1>9, <1>13
  <2>3. \A y \in A \ {c} : y # x /\ y \in U[c] => Sub(V, y) = Sub(U, y) \ {x}
    BY <1>1, <1>11 DEF Sub
  <2>4. Sub(V, Null) = {} /\ Sub(U, Null) = {}
    BY DEF Sub
  <2>5. Sub(V, g[n]) = Sub(U, r[n]) \ {x}
    <3>1. g[n] = r[n] /\ r[n] # x
      BY <1>1, <1>8, <1>13, <2>2
    <3>2. QED  BY <2>2, <2>3, <2>4, <3>1
  <2>6. Sub(V, f[n]) = Sub(U, l[n]) \ {x}
    <3>1. CASE l[n] = x
      <4>1. f[n] = r[x] /\ Sub(U, l[n]) = U[x]
        BY <1>1, <1>5, <1>13, <3>1 DEF Sub
      <4>2. Sub(V, r[x]) = Sub(U, r[x])
        BY <1>c DEF Sub
      <4>3. QED  BY <1>5, <4>1, <4>2
    <3>2. CASE l[n] # x
      <4>1. f[n] = l[n]
        BY <1>1, <1>13, <2>2, <3>2
      <4>2. QED  BY <2>2, <2>3, <2>4, <3>2, <4>1
    <3>3. QED  BY <3>1, <3>2
  <2>7. QED  BY <2>1, <2>5, <2>6
<1>14. ASSUME NEW n \in A \ {c}, n \notin U[c]
       PROVE  /\ V[n] = U[n] \ {c} /\ n # x
              /\ Sub(V, f[n]) = Sub(U, l[n]) \ {c} /\ Sub(V, g[n]) = Sub(U, r[n]) \ {c}
  <2>1. n # x /\ V[n] = U[n] \ {c}
    BY <1>5, <1>11, <1>14
  <2>2. \A y \in {l[n], r[n]} \ {Null} : y \in A /\ y # x /\ (y # c => y \notin U[c])
    BY <1>5, <1>9, <1>14
  <2>3. \A y \in A \ {c} : y # x /\ y \notin U[c] => Sub(V, y) = Sub(U, y) \ {c}
    BY <1>1, <1>11 DEF Sub
  <2>4. Sub(V, Null) = {} /\ Sub(U, Null) = {}
    BY DEF Sub
  <2>5. Sub(V, x) = Sub(U, c) \ {c}
    BY <1>1, <1>5, <1>11 DEF Sub
  <2>6. f[n] = (IF l[n] = c THEN x ELSE l[n]) /\ g[n] = (IF r[n] = c THEN x ELSE r[n])
    BY <1>1, <1>5, <2>1, <2>2
  <2>7. Sub(V, f[n]) = Sub(U, l[n]) \ {c}
    BY <2>2, <2>3, <2>4, <2>5, <2>6
  <2>8. Sub(V, g[n]) = Sub(U, r[n]) \ {c}
    BY <2>2, <2>3, <2>4, <2>5, <2>6
  <2>9. QED  BY <2>1, <2>7, <2>8
<1>. DEFINE B == A \ {c}
            top == IF root = c THEN x ELSE root
<1>15. top \in B /\ h[top] = Null
  <2>1. CASE root = c
    BY <1>1, <1>5, <2>1
  <2>2. CASE root # c
    <3>1. root # x /\ root # l[c] /\ root # s /\ root # r[x]
      BY <1>1, <1>3, <1>5, <1>6, <1>10
    <3>2. QED  BY <1>1, <2>2, <3>1
  <2>3. QED  BY <2>1, <2>2
<1>16. ASSUME NEW n \in B PROVE f[n] \in B \cup {Null} /\ (f[n] # Null => h[f[n]] = n)
  <2>1. CASE n = x
    <3>1. f[n] = l[c] /\ h[l[c]] = x
      BY <1>3, <1>4, <1>5, <2>1
    <3>2. QED  BY <1>3, <1>4, <2>1, <3>1
  <2>2. CASE n # x /\ l[n] = x
    <3>1. f[n] = r[x] /\ n = p[x] /\ x # r[c]
      BY <1>8, <2>2
    <3>2. r[x] # Null => r[x] \in B /\ r[x] # x /\ r[x] # l[c] /\ r[x] # s
      BY <1>1, <1>3, <1>5, <1>10, <3>1
    <3>3. r[x] # Null => h[r[x]] = p[x]
      BY <3>2
    <3>4. QED  BY <3>1, <3>2, <3>3
  <2>3. CASE n # x /\ l[n] = c
    <3>1. f[n] = x /\ p[c] = n
      BY <1>1, <1>5, <2>3
    <3>2. h[x] = p[c]
      BY <1>5
    <3>3. QED  BY <1>5, <3>1, <3>2
  <2>4. CASE n # x /\ l[n] # x /\ l[n] # c
    <3>1. f[n] = l[n] /\ (l[n] # Null => l[n] \in B /\ p[l[n]] = n)
      BY <1>1, <2>4
    <3>2. l[n] # Null => l[n] # l[c] /\ l[n] # s /\ l[n] # r[x]
      BY <1>1, <1>3, <1>5, <1>10, <2>4, <3>1
    <3>3. l[n] # Null => h[l[n]] = n
      BY <2>4, <3>1, <3>2
    <3>4. QED  BY <3>1, <3>3
  <2>5. QED  BY <2>1, <2>2, <2>3, <2>4
<1>17. ASSUME NEW n \in B PROVE g[n] \in B \cup {Null} /\ (g[n] # Null => h[g[n]] = n)
  <2>1. CASE n = x
    <3>1. g[n] = s /\ (s # Null => s \in B /\ s # x)
      BY <1>5, <1>10, <2>1
    <3>2. s # Null => h[s] = x
      BY <3>1
    <3>3. QED  BY <2>1, <3>1, <3>2
  <2>2. CASE n # x /\ r[n] = c
    <3>1. g[n] = x /\ p[c] = n
      BY <1>1, <1>5, <2>2
    <3>2. h[x] = p[c]
      BY <1>5
    <3>3. QED  BY <1>5, <3>1, <3>2
  <2>3. CASE n # x /\ r[n] # c
    <3>1. g[n] = r[n] /\ (r[n] # Null => r[n] \in B /\ p[r[n]] = n /\ r[n] # x)
      BY <1>1, <1>8, <2>3
    <3>2. r[n] # Null => r[n] # l[c] /\ r[n] # s /\ r[n] # r[x]
      BY <1>1, <1>3, <1>5, <1>10, <2>3, <3>1
    <3>3. r[n] # Null => h[r[n]] = n
      BY <3>1, <3>2
    <3>4. QED  BY <3>1, <3>3
  <2>4. QED  BY <2>1, <2>2, <2>3
<1>d. (p[c] = Null /\ root = c) \/ (p[c] \in B /\ p[c] \notin U[c] /\ root # c)
  <2>1. ASSUME root # c PROVE p[c] \in B /\ p[c] \notin U[c]
    <3>1. p[c] \in A /\ c \in {l[p[c]], r[p[c]]}
      BY <1>1, <2>1
    <3>2. p[c] # c
      BY <1>4, <3>1
    <3>3. p[c] \notin U[c]
      BY <1>1, <1>9, <3>1, <3>2
    <3>4. QED  BY <3>1, <3>2, <3>3
  <2>2. QED  BY <1>1, <2>1
<1>e. ASSUME NEW n \in B, n # x, n # l[c], n # s, n # r[x]
      PROVE  h[n] = p[n] /\ p[n] # c /\ p[n] # x
  <2>1. h[n] = p[n]
    BY <1>e
  <2>2. n # root => p[n] # c /\ p[n] # x
    BY <1>1, <1>e
  <2>3. QED  BY <1>1, <1>5, <2>1, <2>2
<1>18. ASSUME NEW n \in B, n # top PROVE h[n] \in B /\ n \in {f[h[n]], g[h[n]]}
  <2>1. CASE n = x
    <3>1. root # c /\ h[x] = p[c] /\ p[c] \in B /\ p[c] # x
      BY <1>5, <1>18, <1>d, <2>1
    <3>2. c \in {l[p[c]], r[p[c]]} /\ l[p[c]] # x
      BY <1>1, <1>5, <1>6, <1>8, <1>d, <3>1
    <3>3. x \in {f[p[c]], g[p[c]]}
      BY <1>5, <3>1, <3>2
    <3>4. QED  BY <2>1, <3>1, <3>3
  <2>2. CASE n # x /\ n = l[c]
    <3>1. h[n] = x /\ f[x] = n
      BY <1>5, <2>2
    <3>2. QED  BY <1>5, <3>1
  <2>3. CASE n # x /\ n = s
    <3>1. h[n] = x /\ g[x] = n
      BY <1>5, <2>3
    <3>2. QED  BY <1>5, <3>1
  <2>4. CASE n # x /\ n # s /\ n # l[c] /\ n = r[x]
    <3>1. x # r[c] /\ h[n] = p[x] /\ p[x] \in B /\ p[x] # x /\ l[p[x]] = x
      BY <1>1, <1>3, <1>6, <1>7, <1>5, <2>4
    <3>2. f[p[x]] = n
      BY <2>4, <3>1
    <3>3. QED  BY <3>1, <3>2
  <2>5. CASE n # x /\ n # s /\ n # l[c] /\ n # r[x]
    <3>1. h[n] = p[n] /\ p[n] # c /\ p[n] # x
      BY <1>e, <2>5
    <3>2. n # root
      BY <1>18
    <3>3. p[n] \in B /\ n \in {l[p[n]], r[p[n]]}
      BY <1>1, <3>1, <3>2
    <3>4. (n = l[p[n]] => f[p[n]] = n) /\ (n = r[p[n]] => g[p[n]] = n)
      BY <2>5, <3>1, <3>3
    <3>5. QED  BY <3>1, <3>3, <3>4
  <2>6. QED  BY <2>1, <2>2, <2>3, <2>4, <2>5
<1>19. Linked(B, f, g, h, top)
  BY <1>15, <1>16, <1>17, <1>18 DEF Linked
<1>20. V[top] = B
  <2>1. CASE root = c
    BY <1>1, <1>5, <1>11, <2>1
  <2>2. CASE root # c
    <3>1. root \notin U[c]
      BY <1>a, <2>2
    <3>2. QED  BY <1>1, <1>5, <1>11, <2>2, <3>1
  <2>3. QED  BY <2>1, <2>2
<1>f. V[x] = U[c] \ {c}
  BY <1>5, <1>11
<1>21. ASSUME NEW n \in B
       PROVE  V[n] \subseteq B /\ V[n] = {n} \cup Sub(V, f[n]) \cup Sub(V, g[n])
  <2>1. CASE n = x
    <3>1. Sub(U, l[c]) = U[l[c]] /\ Sub(U, r[c]) = U[r[c]]
      BY DEF Sub
    <3>2. V[x] = {x} \cup U[l[c]] \cup (U[r[c]] \ {x}) /\ U[c] \subseteq A
      BY <1>2, <1>3, <1>f
    <3>3. QED  BY <1>12, <1>f, <2>1, <3>1, <3>2
  <2>2. CASE n # x /\ n \in U[c]
    <3>1. V[n] = U[n] \ {x} /\ U[n] \subseteq A /\ c \notin U[n]
      BY <1>2, <1>13, <1>a, <2>2
    <3>2. U[n] = {n} \cup Sub(U, l[n]) \cup Sub(U, r[n])
      BY <1>2
    <3>3. Sub(V, f[n]) = Sub(U, l[n]) \ {x} /\ Sub(V, g[n]) = Sub(U, r[n]) \ {x}
      BY <1>13, <2>2
    <3>4. QED  BY <2>2, <3>1, <3>2, <3>3
  <2>3. CASE n \notin U[c]
    <3>1. V[n] = U[n] \ {c} /\ U[n] \subseteq A
      BY <1>2, <1>14, <2>3
    <3>2. U[n] = {n} \cup Sub(U, l[n]) \cup Sub(U, r[n])
      BY <1>2
    <3>3. Sub(V, f[n]) = Sub(U, l[n]) \ {c} /\ Sub(V, g[n]) = Sub(U, r[n]) \ {c}
      BY <1>14, <2>3
    <3>4. QED  BY <3>1, <3>2, <3>3
  <2>4. QED  BY <2>1, <2>2, <2>3
<1>22. ASSUME NEW m \in U[c] \ {c}, m # x
       PROVE  h[m] \in U[c] \ {c} /\ V[m] = U[m] \ {x} /\ V[m] \subseteq U[c] \ {c}
  <2>1. m \in B /\ p[m] \in U[c] /\ c \notin U[m] /\ U[m] \subseteq U[c]
    BY <1>2, <1>a
  <2>2. V[m] = U[m] \ {x}
    BY <1>11, <1>22, <2>1
  <2>3. CASE m \in {l[c], s}
    <3>1. h[m] = x
      BY <1>22, <2>1, <2>3
    <3>2. QED  BY <1>5, <2>1, <2>2, <3>1
  <2>4. CASE m \notin {l[c], s} /\ m = r[x]
    <3>1. h[m] = p[x] /\ p[x] # c
      BY <1>6, <1>22, <2>1, <2>4
    <3>2. QED  BY <1>6, <2>1, <2>2, <3>1
  <2>5. CASE m \notin {l[c], s} /\ m # r[x]
    BY <1>22, <1>e, <2>1, <2>2, <2>5
  <2>6. QED  BY <2>3, <2>4, <2>5
<1>23. ASSUME NEW n \in B, NEW m \in V[n]
       PROVE  V[m] \subseteq V[n] /\ (m # n => h[m] \in V[n])
  <2>1. CASE n = x
    BY <1>22, <1>f, <2>1
  <2>2. CASE n # x /\ n \in U[c]
    <3>1. V[n] = U[n] \ {x} /\ m \in U[n] /\ m # x /\ m \in U[c] \ {c} /\ c \notin U[n]
      BY <1>2, <1>13, <1>a, <2>2
    <3>2. V[m] = U[m] \ {x} /\ U[m] \subseteq U[n]
      BY <1>2, <1>22, <3>1
    <3>3. ASSUME m # n PROVE h[m] \in U[n] \ {x}
      <4>1. p[m] \in U[n] /\ m \in B
        BY <1>2, <3>1, <3>3
      <4>2. m # l[c] /\ m # r[c]
        BY <1>3, <3>1, <4>1
      <4>3. m = r[x] => p[x] \in U[n] /\ p[x] # x /\ x # r[c]
        <5>1. ASSUME m = r[x] PROVE p[x] \in U[n] /\ p[x] # x /\ x # r[c]
          <6>1. x \in U[n]
            BY <1>1, <1>10, <4>1, <5>1
          <6>2. p[x] \in U[n]
            BY <1>2, <2>2, <6>1
          <6>3. x # r[c]
            BY <1>6, <3>1, <6>2
          <6>4. p[x] # x
            BY <1>1, <1>5, <1>7, <6>3
          <6>5. QED  BY <6>2, <6>3, <6>4
        <5>2. QED  BY <5>1
      <4>4. CASE m = r[x]
        <5>1. m # s
          BY <4>2, <4>3, <4>4
        <5>2. h[m] = p[x]
          BY <3>1, <4>1, <4>2, <4>4, <5>1
        <5>3. QED  BY <4>3, <4>4, <5>2
      <4>5. CASE m # r[x]
        <5>1. m # s
          BY <4>2, <4>5
        <5>2. h[m] = p[m] /\ p[m] # x
          BY <1>e, <3>1, <4>1, <4>2, <4>5, <5>1
        <5>3. QED  BY <4>1, <5>2
      <4>6. QED  BY <4>4, <4>5
    <3>4. QED  BY <3>1, <3>2, <3>3
  <2>3. CASE n \notin U[c]
    <3>1. V[n] = U[n] \ {c} /\ m \in U[n] /\ m # c /\ m \in B
      BY <1>2, <1>14, <2>3
    <3>2. m \in U[c] => c \in U[n] /\ U[c] \subseteq U[n] /\ c # n
      BY <1>2, <1>4, <2>3, <3>1
    <3>3. CASE m = x
      <4>1. c \in U[n] /\ U[c] \subseteq U[n] /\ c # n
        BY <1>5, <3>2, <3>3
      <4>2. p[c] \in U[n] /\ h[x] = p[c] /\ p[c] # c
        <5>1. p[c] \in U[n] /\ h[x] = p[c]
          BY <1>2, <1>5, <4>1
        <5>2. p[c] # c
          BY <1>1, <1>d
        <5>3. QED  BY <5>1, <5>2
      <4>3. QED  BY <1>f, <3>1, <3>3, <4>1, <4>2
    <3>4. CASE m # x /\ m \in U[c]
      BY <1>22, <3>1, <3>2, <3>4
    <3>5. CASE m \notin U[c]
      <4>1. V[m] = U[m] \ {c} /\ m # x
        BY <1>14, <3>1, <3>5
      <4>2. m # l[c] /\ m # s /\ m # r[x]
        BY <1>1, <1>3, <1>4, <1>10, <3>1, <3>5
      <4>3. h[m] = p[m] /\ p[m] # c
        BY <1>e, <3>1, <4>1, <4>2
      <4>4. QED  BY <1>2, <3>1, <4>1, <4>3
    <3>6. QED  BY <3>3, <3>4, <3>5
  <2>4. QED  BY <2>1, <2>2, <2>3
<1>24. ASSUME NEW m \in B
       PROVE  m \in V[x] \/ x \in V[m] \/ V[m] \cap V[x] = {}
  <2>1. CASE m \in U[c]
    BY <1>f, <2>1
  <2>2. CASE m \notin U[c]
    <3>1. V[m] = U[m] \ {c}
      BY <1>14, <2>2
    <3>2. c \in U[m] \/ U[m] \cap U[c] = {}
      BY <1>2, <2>2
    <3>3. c \in U[m] => x \in U[m]
      BY <1>2, <1>5
    <3>4. QED  BY <1>5, <1>f, <3>1, <3>2, <3>3
  <2>3. QED  BY <2>1, <2>2
<1>25. ASSUME NEW n \in B, NEW m \in B
       PROVE  m \in V[n] \/ n \in V[m] \/ V[m] \cap V[n] = {}
  <2>1. CASE m = x \/ n = x
    BY <1>24, <2>1
  <2>2. CASE m # x /\ n # x
    <3>1. \A y \in B : y # x => V[y] = U[y] \ {x} \/ V[y] = U[y] \ {c}
      BY <1>11
    <3>2. m \in U[n] \/ n \in U[m] \/ U[m] \cap U[n] = {}
      BY <1>2
    <3>3. QED  BY <2>2, <3>1, <3>2
  <2>3. QED  BY <2>1, <2>2
<1>26. Nested(B, f, g, h, top, V)
  BY <1>20, <1>21, <1>23, <1>25 DEF Nested
<1>g. /\ \A n \in A : d[n] \in Int /\ d[n] \in Keys
      /\ \A n \in A : /\ \A m \in Sub(U, l[n]) : m \in A /\ d[m] < d[n]
                      /\ \A m \in Sub(U, r[n]) : m \in A /\ d[m] > d[n]
      /\ \A m, n \in A : d[m] = d[n] => m = n
  <2>1. \A n \in A : Sub(U, l[n]) \subseteq A /\ Sub(U, r[n]) \subseteq A
    BY <1>2
  <2>2. QED  BY <2>1, TreeAssumption DEF Shape, Ordered
<1>27. ASSUME NEW n \in B
       PROVE  /\ \A m \in Sub(V, f[n]) : d[m] < d[n]
              /\ \A m \in Sub(V, g[n]) : d[m] > d[n]
  <2>1. CASE n = x
    <3>1. Sub(U, l[c]) = U[l[c]] /\ Sub(U, r[c]) = U[r[c]]
      BY DEF Sub
    <3>2. d[x] > d[c] /\ d[x] \in Int /\ d[c] \in Int
      BY <1>5, <1>g, <3>1
    <3>3. \A m \in U[l[c]] : d[m] \in Int /\ d[m] < d[c]
      BY <1>g, <3>1
    <3>4. \A m \in U[l[c]] : d[m] < d[x]
      BY <3>2, <3>3
    <3>5. QED  BY <1>12, <2>1, <3>1, <3>4
  <2>2. CASE n # x /\ n \in U[c]
    BY <1>13, <1>g, <2>2
  <2>3. CASE n \notin U[c]
    BY <1>14, <1>g, <2>3
  <2>4. QED  BY <2>1, <2>2, <2>3
<1>28. Ordered(B, e, f, g, V)
  <2>1. \A n \in B : Sub(V, f[n]) \subseteq B /\ Sub(V, g[n]) \subseteq B
    BY <1>21
  <2>2. \A n \in B : e[n] = d[n]
    OBVIOUS
  <2>3. QED  BY <1>27, <1>g, <2>1, <2>2 DEF Ordered
<1>99. QED  BY <1>19, <1>26, <1>28 DEF Shape

-----------------------------------------------------------------------------
(* Fewer nodes are under a child than under its parent.                    *)
LEMMA Sizes ==
  ASSUME NEW A \in SUBSET Addr, NEW d, NEW l, NEW r, NEW p, NEW root, NEW U,
         Shape(A, d, l, r, p, root, U)
  PROVE  /\ Cardinality(Addr) \in Nat /\ Cardinality(A) <= Cardinality(Addr)
         /\ Cardinality(A) \in Nat
         /\ \A n \in A : Cardinality(U[n]) \in 1..Cardinality(A)
         /\ \A n \in A : \A y \in {l[n], r[n]} \ {Null} :
              y \in A /\ Cardinality(U[y]) + 1 <= Cardinality(U[n])
<1>0. TreeFacts(A, l, r, p, root, U)
  BY ShapeFacts, Zenon
<1>1. /\ IsFiniteSet(A) /\ Cardinality(A) \in Nat /\ Cardinality(Addr) \in Nat
      /\ Cardinality(A) <= Cardinality(Addr)
  BY TreeAssumption, FS_Subset, FS_CardinalityType
<1>2. ASSUME NEW n \in A
      PROVE  /\ IsFiniteSet(U[n]) /\ Cardinality(U[n]) \in Nat
             /\ Cardinality(U[n]) <= Cardinality(A) /\ Cardinality(U[n]) # 0
  <2>1. U[n] \in SUBSET A /\ n \in U[n]
    BY <1>0 DEF TreeFacts
  <2>2. IsFiniteSet(U[n]) /\ Cardinality(U[n]) <= Cardinality(A)
    BY <1>1, <2>1, FS_Subset
  <2>3. QED  BY <2>1, <2>2, FS_CardinalityType, FS_EmptySet
<1>3. ASSUME NEW n \in A, NEW y \in {l[n], r[n]} \ {Null}
      PROVE  y \in A /\ Cardinality(U[y]) + 1 <= Cardinality(U[n])
  <2>1. y \in A /\ U[y] \subseteq U[n] /\ n \notin U[y] /\ n \in U[n]
    <3>1. /\ y \in A /\ Sub(U, y) = U[y] /\ n \in U[n]
          /\ U[n] = {n} \cup Sub(U, l[n]) \cup Sub(U, r[n])
          /\ n \notin Sub(U, l[n]) \cup Sub(U, r[n])
      BY <1>0 DEF TreeFacts, Sub
    <3>2. QED  BY <3>1
  <2>2. U[y] \in SUBSET (U[n] \ {n})
    BY <2>1
  <2>3. /\ IsFiniteSet(U[n] \ {n})
        /\ Cardinality(U[n] \ {n}) = Cardinality(U[n]) - 1
    BY <1>2, <2>1, FS_RemoveElement
  <2>4. Cardinality(U[y]) <= Cardinality(U[n] \ {n})
    BY <2>2, <2>3, FS_Subset
  <2>5. Cardinality(U[y]) \in Nat /\ Cardinality(U[n]) \in Nat
    BY <1>2, <2>1
  <2>6. QED  BY <2>1, <2>3, <2>4, <2>5
<1>4. QED  BY <1>1, <1>2, <1>3

(* Who walks down from a node of Q, and stays in Q, until E stops him, is  *)
(* at a node of E after as many steps as there are addresses.              *)
Walks(l, r, E, Q, go, at) ==
  /\ at[0] \in Q
  /\ \A z \in Q : IF z \in E THEN go[z] = z ELSE go[z] \in Q /\ go[z] \in {l[z], r[z]}
  /\ \A i \in 1..Cardinality(Addr) : at[i-1] \in Q => at[i] = go[at[i-1]]

LEMMA WalkEnds ==
  ASSUME NEW A \in SUBSET Addr, NEW d, NEW l, NEW r, NEW p, NEW root, NEW U,
         Shape(A, d, l, r, p, root, U),
         NEW E, NEW Q \in SUBSET A, NEW go, NEW at, Walks(l, r, E, Q, go, at)
  PROVE  at[Cardinality(Addr)] \in Q \cap E
<1>. DEFINE N == Cardinality(Addr)
            T == {i \in 0..N : at[i] \in Q /\ (at[i] \in E \/ Cardinality(U[at[i]]) <= N - i)}
<1>1. /\ N \in Nat /\ Cardinality(A) \in Nat /\ Cardinality(A) <= N /\ Null \notin A
      /\ \A n \in A : Cardinality(U[n]) \in 1..Cardinality(A)
      /\ \A n \in A : \A y \in {l[n], r[n]} \ {Null} :
           y \in A /\ Cardinality(U[y]) + 1 <= Cardinality(U[n])
  BY Sizes, TreeAssumption
<1>2. 0 \in T
  <2>1. at[0] \in Q /\ at[0] \in A
    BY DEF Walks
  <2>2. QED  BY <1>1, <2>1
<1>3. ASSUME NEW k \in 1..N, k - 1 \in T PROVE k \in T
  <2>1. /\ k \in 0..N /\ at[k-1] \in Q /\ at[k] = go[at[k-1]]
        /\ at[k-1] \in E \/ Cardinality(U[at[k-1]]) <= N - (k - 1)
    BY <1>3, <1>1 DEF Walks
  <2>2. CASE at[k-1] \in E
    <3>1. at[k] = at[k-1]
      BY <2>1, <2>2 DEF Walks
    <3>2. QED  BY <2>1, <2>2, <3>1
  <2>3. CASE at[k-1] \notin E
    <3>1. at[k] \in Q /\ at[k] \in {l[at[k-1]], r[at[k-1]]}
      BY <2>1, <2>3 DEF Walks
    <3>2. Cardinality(U[at[k]]) + 1 <= Cardinality(U[at[k-1]])
      BY <1>1, <2>1, <3>1
    <3>3. Cardinality(U[at[k]]) \in Int /\ Cardinality(U[at[k-1]]) \in Int
      BY <1>1, <2>1, <3>1
    <3>4. Cardinality(U[at[k]]) <= N - k
      BY <1>1, <2>1, <2>3, <3>2, <3>3
    <3>5. QED  BY <2>1, <3>1, <3>4
  <2>4. QED  BY <2>2, <2>3
<1>4. N \in T
  <2>. HIDE DEF T
  <2>1. \A k \in 0..N : k \in T
    BY <1>1, <1>2, <1>3, InductionUpTo
  <2>2. QED  BY <1>1, <2>1
<1>5. at[N] \in Q /\ (at[N] \in E \/ Cardinality(U[at[N]]) <= 0)
  BY <1>1, <1>4
<1>6. Cardinality(U[at[N]]) >= 1
  BY <1>1, <1>5
<1>7. Cardinality(U[at[N]]) \in Int
  BY <1>1, <1>5
<1>8. QED  BY <1>5, <1>6, <1>7

(* A walk that the code writes as a recursive function.                    *)
Goes(f, a, go, N) == \A i \in 0..N : f[i] = IF i = 0 THEN a ELSE go[f[i-1]]

LEMMA WalkExists ==
  ASSUME NEW S, NEW a \in S, NEW go \in [S -> S], NEW N \in Nat
  PROVE  \E f \in [0..N -> S] : Goes(f, a, go, N)
<1>. DEFINE G == [k \in 1..N |-> go]
<1>1. \A k \in 1..N : G[k] \in [S -> S] /\ G[k] = go
  OBVIOUS
<1>. HIDE DEF G
<1>2. PICK f \in [0..N -> S] : Recurs(f, a, G, N)
  BY <1>1, RecursionExists
<1>3. \A i \in 0..N : f[i] = IF i = 0 THEN a ELSE G[i][f[i-1]]
  BY <1>2 DEF Recurs
<1>4. \A i \in 0..N : i # 0 => i \in 1..N
  OBVIOUS
<1>5. Goes(f, a, go, N)
  BY <1>1, <1>3, <1>4 DEF Goes
<1>6. QED  BY <1>5

-----------------------------------------------------------------------------
(* Where the search for t can be: if t is in the tree, it is further down. *)
Searched(A, d, l, r, U, t) ==
  {n \in A : Path(A, d, l, r, U, t, n) /\ \A k \in A : d[k] = t => k \in U[n]}

(* A step of the search keeps to these nodes.                              *)
LEMMA SearchGoesOn ==
  ASSUME NEW A \in SUBSET Addr, NEW d, NEW l, NEW r, NEW p, NEW root, NEW U,
         Shape(A, d, l, r, p, root, U),
         NEW t \in Int, NEW n \in Searched(A, d, l, r, U, t), d[n] # t,
         NEW y, y = (IF t > d[n] THEN r[n] ELSE l[n]), y # Null
  PROVE  y \in Searched(A, d, l, r, U, t)
<1>0. TreeFacts(A, l, r, p, root, U)
  BY ShapeFacts, Zenon
<1>1. /\ Null \notin A
      /\ \A m \in A : /\ l[m] \in A \cup {Null} /\ r[m] \in A \cup {Null}
                      /\ l[m] # Null => p[l[m]] = m
                      /\ r[m] # Null => p[r[m]] = m
      /\ \A m \in A : /\ U[m] \subseteq A /\ U[m] = {m} \cup Sub(U, l[m]) \cup Sub(U, r[m])
                      /\ \A k \in U[m] : k # m => p[k] \in U[m]
  BY <1>0 DEF TreeFacts
<1>2. \A m \in A : d[m] \in Int
  BY TreeAssumption DEF Shape, Ordered
<1>3. n \in A /\ Path(A, d, l, r, U, t, n) /\ \A k \in A : d[k] = t => k \in U[n]
  BY DEF Searched
<1>4. y \in A /\ p[y] = n /\ Sub(U, y) = U[y]
  BY <1>1, <1>3 DEF Sub
<1>5. \A m \in A : \A z \in A : p[z] = m \/ ~(y \in U[z]) \/ n \in U[z] \/ y = z
  BY <1>1, <1>4
<1>6. ASSUME NEW m \in A, m # n
      PROVE  /\ y \in Sub(U, l[m]) => n \in Sub(U, l[m])
             /\ y \in Sub(U, r[m]) => n \in Sub(U, r[m])
  BY <1>1, <1>4, <1>5, <1>6 DEF Sub
<1>7. /\ y \in Sub(U, l[n]) => t < d[n]
      /\ y \in Sub(U, r[n]) => t > d[n]
  <2>1. Sub(U, l[n]) \cap Sub(U, r[n]) = {}
    BY <1>0, <1>3 DEF TreeFacts
  <2>2. y \in U[y]
    BY <1>0, <1>4 DEF TreeFacts
  <2>3. CASE t > d[n]
    <3>1. y \in Sub(U, r[n])
      BY <1>4, <2>2, <2>3
    <3>2. QED  BY <2>1, <2>3, <3>1
  <2>4. CASE ~(t > d[n])
    <3>1. y \in Sub(U, l[n]) /\ t < d[n]
      BY <1>2, <1>3, <1>4, <2>2, <2>4
    <3>2. QED  BY <2>1, <3>1
  <2>5. QED  BY <2>3, <2>4
<1>8. Path(A, d, l, r, U, t, y)
  <2>1. \A m \in A : m # n => /\ y \in Sub(U, l[m]) => t < d[m]
                              /\ y \in Sub(U, r[m]) => t > d[m]
    BY <1>3, <1>6 DEF Path
  <2>2. \A m \in A : /\ y \in Sub(U, l[m]) => t < d[m]
                     /\ y \in Sub(U, r[m]) => t > d[m]
    BY <1>7, <2>1
  <2>3. QED  BY <2>2 DEF Path
<1>9. ASSUME NEW k \in A, d[k] = t PROVE k \in U[y]
  <2>1. k \in Sub(U, l[n]) \/ k \in Sub(U, r[n])
    BY <1>1, <1>3, <1>9
  <2>2. k \in Sub(U, l[n]) => t < d[n]
    BY <1>3, <1>9 DEF Shape, Ordered
  <2>3. k \in Sub(U, r[n]) => t > d[n]
    BY <1>3, <1>9 DEF Shape, Ordered
  <2>4. ~(t < d[n] /\ t > d[n])
    BY <1>2, <1>3
  <2>5. QED  BY <1>4, <2>1, <2>2, <2>3, <2>4
<1>10. QED  BY <1>4, <1>8, <1>9 DEF Searched

(* The search ends at a node that holds t or lacks the child to go on      *)
(* with, and then t is not in the tree and belongs there.                  *)
LEMMA DescendFinds ==
  ASSUME TreeTypes, NEW U,
         Shape(allocated, m_data, m_left, m_right, m_parent, m_root, U),
         NEW t \in Int
  PROVE  /\ Descend(t) \in allocated /\ Ends(Descend(t), t)
         /\ Path(allocated, m_data, m_left, m_right, U, t, Descend(t))
         /\ \A k \in allocated : m_data[k] = t => Descend(t) = k
<1>. DEFINE N == Cardinality(Addr)
            go == [s \in Link |-> IF Ends(s, t) THEN s ELSE Next_(s, t)]
            Step(f) == [i \in 0..N |->
                          IF i = 0 THEN m_root
                          ELSE IF Ends(f[i-1], t) THEN f[i-1] ELSE Next_(f[i-1], t)]
            at == CHOOSE f : f = Step(f)
            A == allocated
            Q == Searched(A, m_data, m_left, m_right, U, t)
            E == {n \in A : Ends(n, t)}
<1>0. TreeFacts(A, m_left, m_right, m_parent, m_root, U)
  <2>1. A \in SUBSET Addr
    BY DEF TreeTypes
  <2>2. QED  BY <2>1, ShapeFacts, Zenon
<1>1. N \in Nat /\ A \in SUBSET Addr /\ m_root \in A /\ Null \notin A /\ A \subseteq Link
      /\ m_root \in Link /\ \A n \in A : m_data[n] \in Int
  <2>1. N \in Nat
    BY TreeAssumption, FS_CardinalityType
  <2>2. QED  BY <2>1, <1>0, TreeAssumption DEF TreeFacts, TreeTypes, Link, Shape, Ordered
<1>2. go \in [Link -> Link]
  BY DEF Ends, Next_, TreeTypes, Link
<1>3. at = Step(at)
  <2>1. PICK f \in [0..N -> Link] : Goes(f, m_root, go, N)
    <3>. HIDE DEF go, N
    <3>1. QED  BY <1>1, <1>2, WalkExists
  <2>2. \A i \in 0..N : i # 0 => f[i-1] \in Link
    BY <1>1, <2>1
  <2>3. \A i \in 0..N : f[i] = IF i = 0 THEN m_root
                             ELSE IF Ends(f[i-1], t) THEN f[i-1] ELSE Next_(f[i-1], t)
    BY <2>1, <2>2 DEF Goes
  <2>4. f = Step(f)
    <3>. HIDE DEF N
    <3>1. QED  BY <2>1, <2>3
  <2>5. QED
    <3>. HIDE DEF Step
    <3>1. QED  BY <2>4
<1>4. Descend(t) = IF at[N] = Null \/ ~Ends(at[N], t) THEN Null ELSE at[N]
  BY DEF Descend
<1>. HIDE DEF at
<1>5. /\ at[0] = m_root
      /\ \A i \in 1..N :
           at[i] = IF Ends(at[i-1], t) THEN at[i-1] ELSE Next_(at[i-1], t)
  <2>1. \A i \in 0..N : at[i] = Step(at)[i]
    <3>. HIDE DEF Step
    <3>1. QED  BY <1>3
  <2>. HIDE DEF N
  <2>2. QED  BY <1>1, <2>1
<1>6. m_root \in Q
  <2>1. ASSUME NEW m \in A PROVE m_root \notin Sub(U, m_left[m]) /\ m_root \notin Sub(U, m_right[m])
    <3>1. ASSUME NEW y \in {m_left[m], m_right[m]}, m_root \in Sub(U, y) PROVE FALSE
      <4>1. y \in A /\ m_root \in U[y] /\ y # m_root
        BY <1>0, <3>1 DEF TreeFacts, Sub
      <4>2. QED  BY <1>0, <4>1 DEF TreeFacts
    <3>2. QED  BY <3>1
  <2>2. U[m_root] = A
    BY <1>0 DEF TreeFacts
  <2>3. QED  BY <1>1, <2>1, <2>2 DEF Searched, Path
<1>7. \A z \in Q : IF z \in E THEN go[z] = z ELSE go[z] \in Q /\ go[z] \in {m_left[z], m_right[z]}
  <2>. SUFFICES ASSUME NEW z \in Q
                PROVE  IF z \in E THEN go[z] = z
                       ELSE go[z] \in Q /\ go[z] \in {m_left[z], m_right[z]}
    OBVIOUS
  <2>1. z \in A /\ z \in Link
    BY <1>1 DEF Searched
  <2>2. CASE z \in E
    BY <2>1, <2>2
  <2>3. CASE z \notin E
    <3>1. ~Ends(z, t) /\ go[z] = Next_(z, t)
      BY <2>1, <2>3
    <3>2. m_data[z] # t /\ go[z] # Null /\ go[z] = IF t > m_data[z] THEN m_right[z] ELSE m_left[z]
      BY <3>1 DEF Ends, Next_
    <3>. HIDE DEF go
    <3>3. go[z] \in Q
      BY <1>1, <3>2, SearchGoesOn
    <3>4. QED  BY <2>3, <3>2, <3>3
  <2>4. QED  BY <2>2, <2>3
<1>8. \A i \in 1..N : at[i-1] \in Q => at[i] = go[at[i-1]]
  <2>1. Q \subseteq Link
    BY <1>1 DEF Searched
  <2>2. QED  BY <1>5, <2>1
<1>9. at[N] \in Q \cap E
  <2>1. Walks(m_left, m_right, E, Q, go, at)
    BY <1>5, <1>6, <1>7, <1>8 DEF Walks
  <2>2. Q \in SUBSET A
    BY DEF Searched
  <2>. HIDE DEF E, Q, go
  <2>3. QED  BY <1>1, <2>1, <2>2, WalkEnds
<1>10. Descend(t) = at[N] /\ Descend(t) \in Q /\ Descend(t) \in E
  BY <1>1, <1>4, <1>9
<1>11. \A k \in A : m_data[k] = t => Descend(t) = k
  <2>. SUFFICES ASSUME NEW k \in A, m_data[k] = t, NEW n, n = Descend(t), n # k PROVE FALSE
    OBVIOUS
  <2>1. n \in A /\ k \in U[n] /\ Ends(n, t)
    BY <1>10 DEF Searched
  <2>2. m_data[n] # t
    BY <2>1 DEF Shape, Ordered
  <2>3. k \in Sub(U, m_left[n]) \/ k \in Sub(U, m_right[n])
    BY <1>0, <2>1 DEF TreeFacts
  <2>4. /\ k \in Sub(U, m_left[n]) => t < m_data[n] /\ m_left[n] # Null
        /\ k \in Sub(U, m_right[n]) => t > m_data[n] /\ m_right[n] # Null
    BY <2>1 DEF Shape, Ordered, Sub
  <2>5. m_data[n] \in Int
    BY <1>1, <2>1
  <2>6. Next_(n, t) # Null
    BY <2>3, <2>4, <2>5 DEF Next_
  <2>7. QED  BY <2>1, <2>2, <2>6 DEF Ends
<1>12. QED  BY <1>10, <1>11 DEF Searched

(* The walk to the left from n ends at the least node under n.             *)
LEMMA LeftmostIsLeast ==
  ASSUME TreeTypes, NEW U,
         Shape(allocated, m_data, m_left, m_right, m_parent, m_root, U),
         NEW n \in allocated
  PROVE  /\ Leftmost(n) \in U[n] /\ m_left[Leftmost(n)] = Null
         /\ \A m \in U[n] \ {Leftmost(n)} : m_data[m] > m_data[Leftmost(n)]
<1>. DEFINE N == Cardinality(Addr)
            A == allocated
            Stops(s) == s \notin A \/ m_left[s] = Null
            go == [s \in Link |-> IF Stops(s) THEN s ELSE m_left[s]]
            Step(f) == [i \in 0..N |->
                          IF i = 0 THEN n
                          ELSE IF f[i-1] \notin A \/ m_left[f[i-1]] = Null THEN f[i-1]
                          ELSE m_left[f[i-1]]]
            at == CHOOSE f : f = Step(f)
            Q == {z \in U[n] : \A m \in U[n] \ U[z] : \A k \in U[z] : m_data[m] > m_data[k]}
            E == {z \in A : m_left[z] = Null}
<1>0. TreeFacts(A, m_left, m_right, m_parent, m_root, U)
  <2>1. A \in SUBSET Addr
    BY DEF TreeTypes
  <2>2. QED  BY <2>1, ShapeFacts, Zenon
<1>1. /\ N \in Nat /\ A \in SUBSET Addr /\ Null \notin A /\ A \subseteq Link /\ n \in Link
      /\ \A m \in A : m_data[m] \in Int
  <2>1. N \in Nat
    BY TreeAssumption, FS_CardinalityType
  <2>2. QED  BY <2>1, TreeAssumption DEF TreeTypes, Link, Shape, Ordered
<1>2. go \in [Link -> Link]
  BY <1>1 DEF TreeTypes, Link
<1>3. at = Step(at)
  <2>1. PICK f \in [0..N -> Link] : Goes(f, n, go, N)
    <3>. HIDE DEF go, N
    <3>1. QED  BY <1>1, <1>2, WalkExists
  <2>2. \A i \in 0..N : i # 0 => f[i-1] \in Link
    BY <1>1, <2>1
  <2>3. \A i \in 0..N : f[i] = IF i = 0 THEN n
                              ELSE IF f[i-1] \notin A \/ m_left[f[i-1]] = Null THEN f[i-1]
                              ELSE m_left[f[i-1]]
    BY <2>1, <2>2 DEF Goes
  <2>4. f = Step(f)
    <3>. HIDE DEF N
    <3>1. QED  BY <2>1, <2>3
  <2>5. QED
    <3>. HIDE DEF Step
    <3>1. QED  BY <2>4
<1>4. Leftmost(n) = IF at[N] \in A /\ m_left[at[N]] # Null THEN Null ELSE at[N]
  BY DEF Leftmost
<1>. HIDE DEF at
<1>5. /\ at[0] = n
      /\ \A i \in 1..N : at[i] = IF Stops(at[i-1]) THEN at[i-1] ELSE m_left[at[i-1]]
  <2>1. \A i \in 0..N : at[i] = Step(at)[i]
    <3>. HIDE DEF Step
    <3>1. QED  BY <1>3
  <2>. HIDE DEF N
  <2>2. QED  BY <1>1, <2>1
<1>6. U[n] \subseteq A /\ n \in Q
  BY <1>0 DEF TreeFacts
<1>7. \A z \in Q : IF z \in E THEN go[z] = z ELSE go[z] \in Q /\ go[z] \in {m_left[z], m_right[z]}
  <2>. SUFFICES ASSUME NEW z \in Q
                PROVE  IF z \in E THEN go[z] = z
                       ELSE go[z] \in Q /\ go[z] \in {m_left[z], m_right[z]}
    OBVIOUS
  <2>1. z \in A /\ z \in Link /\ U[z] \subseteq U[n]
    BY <1>0, <1>1, <1>6 DEF TreeFacts
  <2>2. CASE z \in E
    BY <2>1, <2>2
  <2>3. CASE z \notin E
    <3>1. go[z] = m_left[z] /\ m_left[z] # Null
      BY <2>1, <2>3
    <3>2. PICK y : y = m_left[z]
      OBVIOUS
    <3>3. y \in A /\ y \in U[y] /\ U[z] = {z} \cup U[y] \cup Sub(U, m_right[z]) /\ U[z] \subseteq A
      BY <1>0, <2>1, <3>1, <3>2 DEF TreeFacts, Sub
    <3>4. ASSUME NEW m \in U[n] \ U[y], NEW k \in U[y] PROVE m_data[m] > m_data[k]
      <4>1. k \in U[z] /\ k \in A /\ m \in A
        BY <1>6, <3>3
      <4>2. CASE m \notin U[z]
        BY <4>1, <4>2
      <4>3. m_data[k] < m_data[z] /\ m_data[k] \in Int /\ m_data[z] \in Int /\ m_data[m] \in Int
        BY <1>1, <2>1, <3>1, <3>2, <4>1 DEF Shape, Ordered, Sub
      <4>4. CASE m = z
        BY <4>3, <4>4
      <4>5. CASE m \in Sub(U, m_right[z])
        <5>1. m_data[m] > m_data[z]
          BY <2>1, <4>5 DEF Shape, Ordered
        <5>2. QED  BY <4>3, <5>1
      <4>6. QED  BY <3>3, <4>2, <4>4, <4>5
    <3>5. y \in Q
      BY <2>1, <3>3, <3>4
    <3>6. QED  BY <2>3, <3>1, <3>2, <3>5
  <2>4. QED  BY <2>2, <2>3
<1>8. \A i \in 1..N : at[i-1] \in Q => at[i] = go[at[i-1]]
  <2>1. Q \subseteq Link
    BY <1>1, <1>6
  <2>2. QED  BY <1>5, <2>1
<1>9. at[N] \in Q \cap E
  <2>1. Walks(m_left, m_right, E, Q, go, at)
    BY <1>5, <1>6, <1>7, <1>8 DEF Walks
  <2>2. Q \in SUBSET A
    BY <1>6
  <2>. HIDE DEF E, Q, go
  <2>3. QED  BY <1>1, <2>1, <2>2, WalkEnds
<1>10. Leftmost(n) = at[N] /\ Leftmost(n) \in Q /\ Leftmost(n) \in E
  BY <1>4, <1>9
<1>11. ASSUME NEW m \in U[n] \ {Leftmost(n)} PROVE m_data[m] > m_data[Leftmost(n)]
  <2>1. PICK x : x = Leftmost(n)
    OBVIOUS
  <2>2. x \in Q /\ x \in A /\ m_left[x] = Null /\ x \in U[x]
    BY <1>0, <1>10, <2>1 DEF TreeFacts
  <2>3. U[x] = {x} \cup Sub(U, m_right[x])
    BY <1>0, <2>2 DEF TreeFacts, Sub
  <2>4. CASE m \in U[x]
    BY <2>1, <2>2, <2>3, <2>4 DEF Shape, Ordered
  <2>5. CASE m \notin U[x]
    BY <2>1, <2>2, <2>5
  <2>6. QED  BY <2>4, <2>5
<1>12. QED  BY <1>10, <1>11

-----------------------------------------------------------------------------
(* The nodes that the destructor reaches, level by level.                  *)
Beyond(S) == S \cup UNION {{m_left[n], m_right[n]} \ {Null} : n \in S \cap Addr}

LEMMA Levels ==
  ASSUME TreeTypes
  PROVE  \E f : /\ f[0] = {m_root} \ {Null} /\ Reachable = f[Cardinality(Addr)]
               /\ \A i \in 1..Cardinality(Addr) : f[i] = Beyond(f[i-1])
<1>. DEFINE N == Cardinality(Addr)
            go == [S \in SUBSET Addr |-> Beyond(S)]
            Step(f) == [i \in 0..N |-> IF i = 0 THEN {m_root} \ {Null} ELSE Beyond(f[i-1])]
            within == CHOOSE f : f = Step(f)
<1>1. N \in Nat
  BY TreeAssumption, FS_CardinalityType
<1>2. go \in [SUBSET Addr -> SUBSET Addr]
  <2>1. \A n \in Addr : {m_left[n], m_right[n]} \ {Null} \subseteq Addr
    BY DEF TreeTypes, Link
  <2>2. \A S \in SUBSET Addr : Beyond(S) \in SUBSET Addr
    BY <2>1 DEF Beyond
  <2>3. QED  BY <2>2
<1>3. {m_root} \ {Null} \in SUBSET Addr
  BY DEF TreeTypes, Link
<1>4. PICK f \in [0..N -> SUBSET Addr] : Goes(f, {m_root} \ {Null}, go, N)
  <2>. HIDE DEF go, N
  <2>1. QED  BY <1>1, <1>2, <1>3, WalkExists
<1>5. \A i \in 0..N : i # 0 => f[i-1] \in SUBSET Addr
  BY <1>1, <1>4
<1>6. \A i \in 0..N : f[i] = IF i = 0 THEN {m_root} \ {Null} ELSE Beyond(f[i-1])
  BY <1>4, <1>5 DEF Goes
<1>7. f = Step(f)
  <2>. HIDE DEF N, go
  <2>1. QED  BY <1>4, <1>6
<1>8. within = Step(within)
  <2>. HIDE DEF Step
  <2>1. QED  BY <1>7
<1>9. Reachable = within[N]
  BY DEF Reachable, Beyond
<1>. HIDE DEF within
<1>10. \A i \in 0..N : within[i] = Step(within)[i]
  <2>. HIDE DEF Step
  <2>1. QED  BY <1>8
<1>11. /\ within[0] = {m_root} \ {Null}
       /\ \A i \in 1..N : within[i] = Beyond(within[i-1])
  <2>. HIDE DEF N
  <2>1. QED  BY <1>1, <1>10
<1>12. QED  BY <1>9, <1>11

(* They are all the nodes of a tree.                                       *)
LEMMA AllReached ==
  ASSUME TreeTypes, NEW U,
         Shape(allocated, m_data, m_left, m_right, m_parent, m_root, U)
  PROVE  Reachable = allocated
<1>. DEFINE N == Cardinality(Addr)
            A == allocated
<1>0. TreeFacts(A, m_left, m_right, m_parent, m_root, U)
  <2>1. A \in SUBSET Addr
    BY DEF TreeTypes
  <2>2. QED  BY <2>1, ShapeFacts, Zenon
<1>1. /\ N \in Nat /\ Cardinality(A) \in Nat /\ Cardinality(A) <= N
      /\ \A n \in A : Cardinality(U[n]) \in 1..Cardinality(A)
      /\ \A n \in A : \A y \in {m_left[n], m_right[n]} \ {Null} :
           y \in A /\ Cardinality(U[y]) + 1 <= Cardinality(U[n])
  BY Sizes DEF TreeTypes
<1>2. /\ Null \notin A /\ m_root \in A /\ U[m_root] = A /\ A \subseteq Addr
      /\ \A n \in A : /\ m_left[n] \in A \cup {Null} /\ m_right[n] \in A \cup {Null}
                      /\ U[n] \subseteq A
                      /\ n # m_root => /\ m_parent[n] \in A
                                       /\ n \in {m_left[m_parent[n]], m_right[m_parent[n]]}
  BY <1>0 DEF TreeFacts, TreeTypes
<1>3. PICK f : /\ f[0] = {m_root} \ {Null} /\ Reachable = f[N]
               /\ \A i \in 1..N : f[i] = Beyond(f[i-1])
  BY Levels
<1>. DEFINE T == {i \in 0..N :
                    /\ f[i] \subseteq A /\ m_root \in f[i]
                    /\ \A n \in A : Cardinality(U[n]) + i >= Cardinality(A) => n \in f[i]}
<1>4. 0 \in T
  <2>1. f[0] = {m_root}
    BY <1>2, <1>3
  <2>2. ASSUME NEW n \in A, n # m_root PROVE ~(Cardinality(U[n]) >= Cardinality(A))
    <3>1. U[n] \in SUBSET A /\ m_root \notin U[n]
      BY <1>0, <1>2, <2>2 DEF TreeFacts
    <3>2. Cardinality(U[n]) <= Cardinality(A) /\ (Cardinality(A) = Cardinality(U[n]) => A = U[n])
      <4>1. IsFiniteSet(A)
        BY <1>2, TreeAssumption, FS_Subset
      <4>2. QED  BY <3>1, <4>1, FS_Subset
    <3>3. Cardinality(U[n]) \in Int /\ Cardinality(A) \in Int
      BY <1>1
    <3>4. QED  BY <1>2, <3>1, <3>2, <3>3
  <2>3. QED  BY <1>1, <1>2, <2>1, <2>2
<1>5. ASSUME NEW k \in 1..N, k - 1 \in T PROVE k \in T
  <2>1. /\ k \in 0..N /\ f[k] = Beyond(f[k-1]) /\ f[k-1] \subseteq A /\ m_root \in f[k-1]
        /\ \A n \in A : Cardinality(U[n]) + (k - 1) >= Cardinality(A) => n \in f[k-1]
    BY <1>1, <1>3, <1>5
  <2>2. /\ f[k-1] \subseteq f[k] /\ f[k] \subseteq A
        /\ \A n \in f[k-1] : {m_left[n], m_right[n]} \ {Null} \subseteq f[k]
    BY <1>2, <2>1 DEF Beyond
  <2>3. ASSUME NEW n \in A, Cardinality(U[n]) + k >= Cardinality(A) PROVE n \in f[k]
    <3>1. CASE n = m_root
      BY <2>1, <2>2, <3>1
    <3>2. CASE n # m_root
      <4>1. PICK q \in A : n \in {m_left[q], m_right[q]} \ {Null}
        BY <1>2, <3>2
      <4>2. Cardinality(U[n]) + 1 <= Cardinality(U[q])
        BY <1>1, <4>1
      <4>3. /\ Cardinality(U[n]) \in Int /\ Cardinality(U[q]) \in Int
            /\ Cardinality(A) \in Int /\ k \in Int
        BY <1>1
      <4>4. Cardinality(U[q]) + (k - 1) >= Cardinality(A)
        BY <2>3, <4>2, <4>3
      <4>5. q \in f[k-1]
        BY <2>1, <4>4
      <4>6. QED  BY <2>2, <4>1, <4>5
    <3>3. QED  BY <3>1, <3>2
  <2>4. QED  BY <2>1, <2>2, <2>3
<1>6. N \in T
  <2>. HIDE DEF T
  <2>1. \A k \in 0..N : k \in T
    BY <1>1, <1>4, <1>5, InductionUpTo
  <2>2. QED  BY <1>1, <2>1
<1>7. \A n \in A : Cardinality(U[n]) + N >= Cardinality(A)
  <2>1. ASSUME NEW n \in A PROVE Cardinality(U[n]) + N >= Cardinality(A)
    <3>1. Cardinality(U[n]) \in Int /\ Cardinality(U[n]) >= 1 /\ Cardinality(A) \in Int /\ N \in Int
      BY <1>1
    <3>2. QED  BY <1>1, <3>1
  <2>2. QED  BY <2>1
<1>8. QED  BY <1>3, <1>6, <1>7

(* The destructor comes to each node by one pointer only.                  *)
LEMMA OnePointerEach ==
  ASSUME TreeTypes, NEW U,
         Shape(allocated, m_data, m_left, m_right, m_parent, m_root, U),
         NEW n \in allocated
  PROVE  ~(Pointers(n) > 1)
<1>. DEFINE A == allocated
            L == {m \in A : m_left[m] = n}
            R == {m \in A : m_right[m] = n}
<1>0. TreeFacts(A, m_left, m_right, m_parent, m_root, U)
  <2>1. A \in SUBSET Addr
    BY DEF TreeTypes
  <2>2. QED  BY <2>1, ShapeFacts, Zenon
<1>1. Pointers(n) = Cardinality(L) + Cardinality(R) + (IF m_root = n THEN 1 ELSE 0)
  BY AllReached DEF Pointers
<1>2. CASE n = m_root
  <2>1. L = {} /\ R = {}
    BY <1>0, <1>2 DEF TreeFacts
  <2>2. QED  BY <1>1, <1>2, <2>1, FS_EmptySet
<1>3. CASE n # m_root
  <2>1. PICK q : q = m_parent[n]
    OBVIOUS
  <2>2. \A m \in A : m_left[m] = n \/ m_right[m] = n => m = q
    BY <1>0, <2>1 DEF TreeFacts
  <2>3. ~(m_left[q] = n /\ m_right[q] = n) /\ q \in A /\ n \in {m_left[q], m_right[q]}
    BY <1>0, <1>3, <2>1 DEF TreeFacts
  <2>4. \/ L = {q} /\ R = {}
        \/ L = {} /\ R = {q}
    BY <2>2, <2>3
  <2>5. Cardinality({q}) = 1 /\ Cardinality({}) = 0
    BY FS_EmptySet, FS_Singleton
  <2>6. QED  BY <1>1, <1>3, <2>4, <2>5
<1>4. QED  BY <1>2, <1>3

(* No nodes of a tree lead round to themselves.                            *)
LEMMA NoWayRound ==
  ASSUME TreeTypes, NEW U,
         Shape(allocated, m_data, m_left, m_right, m_parent, m_root, U),
         NEW C \in SUBSET allocated, C # {}
  PROVE  \E n \in C : {m_left[n], m_right[n]} \cap C = {}
<1>1. /\ \A n \in allocated : Cardinality(U[n]) \in Nat
      /\ \A n \in allocated : \A y \in {m_left[n], m_right[n]} \ {Null} :
           Cardinality(U[y]) + 1 <= Cardinality(U[n])
  <2>1. allocated \in SUBSET Addr
    BY DEF TreeTypes
  <2>2. QED  BY <2>1, Sizes
<1>. DEFINE T == {Cardinality(U[n]) : n \in C}
<1>2. PICK x \in T : \A y \in T : x <= y
  <2>1. T \in SUBSET Nat /\ T # {}
    BY <1>1
  <2>2. QED  BY <2>1, LeastNatural
<1>3. PICK n \in C : x = Cardinality(U[n])
  BY <1>2
<1>4. ASSUME NEW y \in {m_left[n], m_right[n]} \cap C PROVE FALSE
  <2>1. y # Null
    BY TreeAssumption DEF TreeTypes
  <2>2. Cardinality(U[y]) + 1 <= Cardinality(U[n])
    BY <1>1, <2>1
  <2>3. Cardinality(U[n]) <= Cardinality(U[y])
    BY <1>2, <1>3
  <2>4. Cardinality(U[y]) \in Nat /\ Cardinality(U[n]) \in Nat
    BY <1>1
  <2>5. QED  BY <2>2, <2>3, <2>4
<1>5. QED  BY <1>4

(* Without a root nothing is reached; a root always is, if a wild one.     *)
LEMMA RootReached ==
  ASSUME TreeTypes
  PROVE  IF m_root = Null THEN Reachable = {} ELSE m_root \in Reachable
<1>. DEFINE N == Cardinality(Addr)
<1>1. PICK f : /\ f[0] = {m_root} \ {Null} /\ Reachable = f[N]
               /\ \A i \in 1..N : f[i] = Beyond(f[i-1])
  BY Levels
<1>. DEFINE T == {i \in 0..N : IF m_root = Null THEN f[i] = {} ELSE m_root \in f[i]}
<1>2. N \in Nat
  BY TreeAssumption, FS_CardinalityType
<1>3. 0 \in T
  BY <1>1, <1>2
<1>4. ASSUME NEW k \in 1..N, k - 1 \in T PROVE k \in T
  <2>1. k \in 0..N /\ f[k] = Beyond(f[k-1])
    BY <1>1, <1>2
  <2>2. CASE m_root = Null
    BY <1>4, <2>1, <2>2 DEF Beyond
  <2>3. CASE m_root # Null
    <3>1. m_root \in f[k-1]
      BY <1>4, <2>3
    <3>2. QED  BY <2>1, <2>3, <3>1 DEF Beyond
  <2>4. QED  BY <2>2, <2>3
<1>5. N \in T
  <2>. HIDE DEF T
  <2>1. \A k \in 0..N : k \in T
    BY <1>2, <1>3, <1>4, InductionUpTo
  <2>2. QED  BY <1>2, <2>1
<1>6. QED  BY <1>1, <1>5

-----------------------------------------------------------------------------
(* size() is zero when there is no node.                                   *)
LEMMA SizeTells ==
  ASSUME Holds
  PROVE  m_size \in Nat /\ (m_size = 0 <=> allocated = {}) /\ (m_size > 0 <=> allocated # {})
<1>1. m_size \in Nat /\ (m_size = 0 <=> contents = {})
  BY FS_CardinalityType, FS_EmptySet DEF Holds
<1>2. contents = {} <=> allocated = {}
  BY DEF Holds
<1>3. QED  BY <1>1, <1>2

(* The tree begins without nodes.                                          *)
LEMMA TreeBegins ==
  ASSUME TreeInit
  PROVE  WellFormed
<1>1. TreeTypes
  BY DEF TreeInit, TreeTypes, Unlinked, Link
<1>2. Holds
  BY FS_EmptySet DEF TreeInit, Holds
<1>3. QED  BY <1>1, <1>2 DEF TreeInit, WellFormed

(* What New() does to the types and to what the tree holds.                *)
LEMMA NewHolds ==
  ASSUME TreeTypes, Holds, NEW a \in Addr, NEW t \in Keys, NEW q \in Link,
         \A n \in allocated : m_data[n] # t, New(a, t, q)
  PROVE  /\ Holds' /\ allocated' = allocated \cup {a} /\ a \in Addr \ allocated
         /\ m_data' \in [Addr -> Keys \cup {Null}] /\ m_parent' \in [Addr -> Link]
         /\ m_data'[a] = t /\ m_parent'[a] = q
         /\ \A n \in allocated : m_data'[n] = m_data[n] /\ m_parent'[n] = m_parent[n]
<1>1. /\ a \in Addr \ allocated /\ allocated' = allocated \cup {a} /\ allocated \subseteq Addr
      /\ m_data \in [Addr -> Keys \cup {Null}] /\ m_parent \in [Addr -> Link]
      /\ m_data' = [m_data EXCEPT ![a] = t] /\ m_parent' = [m_parent EXCEPT ![a] = q]
      /\ m_size' = m_size + 1 /\ contents' = contents \cup {t}
  BY DEF New, TreeTypes
<1>2. /\ m_data' \in [Addr -> Keys \cup {Null}] /\ m_parent' \in [Addr -> Link]
      /\ m_data'[a] = t /\ m_parent'[a] = q
      /\ \A n \in allocated : m_data'[n] = m_data[n] /\ m_parent'[n] = m_parent[n]
  BY <1>1
<1>3. contents' = {m_data'[n] : n \in allocated'}
  <2>1. contents = {m_data[n] : n \in allocated}
    BY DEF Holds
  <2>2. QED  BY <1>1, <1>2, <2>1
<1>4. IsFiniteSet(contents') /\ m_size' = Cardinality(contents')
  <2>1. t \notin contents /\ IsFiniteSet(contents) /\ m_size = Cardinality(contents)
    BY DEF Holds
  <2>2. QED  BY <1>1, <2>1, FS_AddElement
<1>5. QED  BY <1>1, <1>2, <1>3, <1>4 DEF Holds

(* add() to an empty tree.                                                 *)
LEMMA RootAdded ==
  ASSUME WellFormed, NEW t \in Keys, AddRoot(t)
  PROVE  WellFormed' /\ treeState' = treeState
<1>1. TreeTypes /\ Holds /\ allocated = {} /\ treeState' = treeState
  BY SizeTells DEF WellFormed, AddRoot
<1>2. PICK a \in Addr : New(a, t, Null) /\ m_root' = a /\ m_left' = m_left /\ m_right' = m_right
  BY DEF AddRoot
<1>3. /\ Holds' /\ allocated' = {a}
      /\ m_data' \in [Addr -> Keys \cup {Null}] /\ m_parent' \in [Addr -> Link]
      /\ m_data'[a] = t /\ m_parent'[a] = Null
  <2>1. Null \in Link
    BY DEF Link
  <2>2. QED  BY <1>1, <1>2, <2>1, NewHolds
<1>4. /\ m_left \in [Addr -> Link] /\ m_right \in [Addr -> Link]
      /\ \A b \in Addr : m_left[b] = Null /\ m_right[b] = Null
  BY <1>1 DEF TreeTypes
<1>5. TreeTypes'
  BY <1>2, <1>3, <1>4 DEF TreeTypes, Link
<1>6. IsTree'
  <2>. DEFINE U == [n \in {a} |-> {a}]
  <2>1. U[a] = {a}
    OBVIOUS
  <2>. HIDE DEF U
  <2>2. a # Null /\ m_left'[a] = Null /\ m_right'[a] = Null
    BY <1>2, <1>4, TreeAssumption
  <2>3. Linked({a}, m_left', m_right', m_parent', a)
    BY <1>3, <2>2 DEF Linked
  <2>4. Nested({a}, m_left', m_right', m_parent', a, U)
    BY <2>1, <2>2 DEF Nested, Sub
  <2>5. Ordered({a}, m_data', m_left', m_right', U)
    BY <1>3, <2>2 DEF Ordered, Sub
  <2>6. Shape({a}, m_data', m_left', m_right', m_parent', a, U)
    BY <2>3, <2>4, <2>5 DEF Shape
  <2>7. QED  BY <1>2, <1>3, <2>6 DEF IsTree
<1>7. QED  BY <1>1, <1>3, <1>5, <1>6 DEF WellFormed

(* add() to a tree that has nodes.                                         *)
LEMMA LeafAdded ==
  ASSUME WellFormed, NEW t \in Keys, AddBelow(t)
  PROVE  WellFormed' /\ treeState' = treeState
<1>1. TreeTypes /\ Holds /\ allocated # {} /\ allocated \in SUBSET Addr
  BY SizeTells DEF WellFormed, AddBelow, TreeTypes
<1>2. PICK U : Shape(allocated, m_data, m_left, m_right, m_parent, m_root, U)
  BY <1>1 DEF WellFormed, IsTree
<1>3. PICK n : n = Descend(t)
  OBVIOUS
<1>4. /\ n \in allocated /\ Ends(n, t)
      /\ Path(allocated, m_data, m_left, m_right, U, t, n)
      /\ \A k \in allocated : m_data[k] = t => n = k
  <2>1. t \in Int
    BY TreeAssumption
  <2>2. QED  BY <1>1, <1>2, <1>3, <2>1, DescendFinds
<1>5. CASE m_data[n] = t
  <2>1. UNCHANGED treeVars
    BY <1>3, <1>4, <1>5 DEF AddBelow
  <2>2. QED  BY <2>1 DEF treeVars, nodeVars, WellFormed, TreeTypes, Holds, IsTree
<1>6. CASE m_data[n] # t
  <2>1. PICK a \in Addr :
          /\ New(a, t, n)
          /\ IF t > m_data[n]
             THEN m_right' = [m_right EXCEPT ![n] = a] /\ m_left' = m_left
             ELSE m_left' = [m_left EXCEPT ![n] = a] /\ m_right' = m_right
          /\ m_root' = m_root /\ treeState' = treeState
    BY <1>3, <1>4, <1>6 DEF AddBelow
  <2>2. \A m \in allocated : m_data[m] # t
    BY <1>4, <1>6
  <2>3. /\ Holds' /\ allocated' = allocated \cup {a} /\ a \in Addr \ allocated
        /\ m_data' \in [Addr -> Keys \cup {Null}] /\ m_parent' \in [Addr -> Link]
        /\ m_data'[a] = t /\ m_parent'[a] = n
        /\ \A m \in allocated : m_data'[m] = m_data[m] /\ m_parent'[m] = m_parent[m]
    <3>1. n \in Link
      BY <1>1, <1>4 DEF Link
    <3>2. QED  BY <1>1, <2>1, <2>2, <3>1, NewHolds
  <2>4. /\ m_left \in [Addr -> Link] /\ m_right \in [Addr -> Link] /\ m_root \in Link
        /\ m_left[a] = Null /\ m_right[a] = Null /\ a # n /\ n \in Addr
        /\ \A b \in Addr \ allocated : m_left[b] = Null /\ m_right[b] = Null
    BY <1>1, <1>4, <2>3 DEF TreeTypes
  <2>5. /\ m_data[n] \in Int /\ t \in Int
        /\ t > m_data[n] => m_right[n] = Null
        /\ t < m_data[n] => m_left[n] = Null
    <3>1. m_data[n] \in Int /\ t \in Int
      BY <1>2, <1>4, TreeAssumption DEF Shape, Ordered
    <3>2. QED  BY <1>4, <1>6, <3>1 DEF Ends, Next_
  <2>6. /\ m_left' \in [Addr -> Link] /\ m_right' \in [Addr -> Link]
        /\ \A m \in Addr : m_left'[m] = IF m = n /\ t < m_data[n] THEN a ELSE m_left[m]
        /\ \A m \in Addr : m_right'[m] = IF m = n /\ t > m_data[n] THEN a ELSE m_right[m]
    <3>1. a \in Link
      BY DEF Link
    <3>2. CASE t > m_data[n]
      BY <2>1, <2>4, <2>5, <3>1, <3>2
    <3>3. CASE t < m_data[n]
      BY <2>1, <2>4, <2>5, <3>1, <3>3
    <3>4. QED  BY <1>6, <2>5, <3>2, <3>3
  <2>7. Grows(allocated, m_data, m_left, m_right, m_parent, n, a, t,
              m_data', m_left', m_right', m_parent')
    BY <1>1, <2>3, <2>4, <2>5, <2>6 DEF Grows
  <2>8. \E V : Shape(allocated \cup {a}, m_data', m_left', m_right', m_parent', m_root, V)
    BY <1>1, <1>2, <1>4, <2>2, <2>3, <2>7, LeafKeeps
  <2>9. IsTree'
    BY <2>1, <2>3, <2>8 DEF IsTree
  <2>10. TreeTypes'
    <3>1. allocated' \subseteq Addr /\ m_root' \in Link
      BY <1>1, <2>1, <2>3, <2>4
    <3>2. \A b \in Addr \ allocated' : m_left'[b] = Null /\ m_right'[b] = Null
      BY <1>4, <2>3, <2>4, <2>6
    <3>3. QED  BY <2>3, <2>6, <3>1, <3>2 DEF TreeTypes
  <2>11. QED  BY <2>1, <2>3, <2>9, <2>10 DEF WellFormed
<1>7. QED  BY <1>5, <1>6

-----------------------------------------------------------------------------
(* What Delete() does to the types and to what the tree holds.             *)
LEMMA DeleteHolds ==
  ASSUME TreeTypes, Holds, NEW U,
         Shape(allocated, m_data, m_left, m_right, m_parent, m_root, U),
         NEW c \in allocated,
         NEW left \in [Addr -> Link], NEW right \in [Addr -> Link],
         NEW parent \in [Addr -> Link],
         \A b \in Addr \ allocated : left[b] = Null /\ right[b] = Null,
         Delete(c, left, right, parent), m_root' \in Link
  PROVE  /\ TreeTypes' /\ Holds' /\ treeState' = treeState /\ allocated' = allocated \ {c}
         /\ \A n \in allocated \ {c} :
              /\ m_data'[n] = m_data[n] /\ m_left'[n] = left[n]
              /\ m_right'[n] = right[n] /\ m_parent'[n] = parent[n]
<1>1. /\ allocated' = allocated \ {c} /\ allocated \subseteq Addr /\ c \in Addr /\ Null \in Link
      /\ m_data \in [Addr -> Keys \cup {Null}] /\ m_data' = [m_data EXCEPT ![c] = Null]
      /\ m_left' = [left EXCEPT ![c] = Null] /\ m_right' = [right EXCEPT ![c] = Null]
      /\ m_parent' = [parent EXCEPT ![c] = Null]
      /\ m_size' = m_size - 1 /\ contents' = contents \ {m_data[c]} /\ treeState' = treeState
  BY DEF Delete, TreeTypes, Link
<1>2. \A n \in allocated \ {c} :
        /\ m_data'[n] = m_data[n] /\ m_left'[n] = left[n]
        /\ m_right'[n] = right[n] /\ m_parent'[n] = parent[n]
  BY <1>1
<1>3. /\ m_data' \in [Addr -> Keys \cup {Null}] /\ m_left' \in [Addr -> Link]
      /\ m_right' \in [Addr -> Link] /\ m_parent' \in [Addr -> Link]
  BY <1>1
<1>4. \A b \in Addr \ allocated' : m_left'[b] = Null /\ m_right'[b] = Null
  BY <1>1
<1>5. TreeTypes'
  BY <1>1, <1>3, <1>4 DEF TreeTypes
<1>6. contents' = {m_data'[n] : n \in allocated'}
  <2>1. contents = {m_data[n] : n \in allocated}
    BY DEF Holds
  <2>2. \A n \in allocated \ {c} : m_data[n] # m_data[c]
    BY DEF Shape, Ordered
  <2>3. QED  BY <1>1, <1>2, <2>1, <2>2
<1>7. IsFiniteSet(contents') /\ m_size' = Cardinality(contents')
  <2>1. m_data[c] \in contents /\ IsFiniteSet(contents) /\ m_size = Cardinality(contents)
    BY DEF Holds
  <2>2. QED  BY <1>1, <2>1, FS_RemoveElement
<1>8. QED  BY <1>1, <1>2, <1>5, <1>6, <1>7 DEF Holds

(* del() of the only node.                                                 *)
LEMMA LastNodeDeleted ==
  ASSUME WellFormed, NEW U,
         Shape(allocated, m_data, m_left, m_right, m_parent, m_root, U),
         NEW c \in allocated, m_parent[c] = Null, m_left[c] = Null, m_right[c] = Null,
         Delete(c, m_left, m_right, m_parent), m_root' = Null
  PROVE  WellFormed' /\ treeState' = treeState
<1>0. TreeFacts(allocated, m_left, m_right, m_parent, m_root, U)
  <2>1. allocated \in SUBSET Addr
    BY DEF WellFormed, TreeTypes
  <2>2. QED  BY <2>1, ShapeFacts, Zenon
<1>1. allocated = {c}
  <2>1. c = m_root
    BY <1>0 DEF TreeFacts
  <2>2. QED  BY <1>0, <2>1 DEF TreeFacts, Sub
<1>2. /\ m_left \in [Addr -> Link] /\ m_right \in [Addr -> Link] /\ m_parent \in [Addr -> Link]
      /\ \A b \in Addr \ allocated : m_left[b] = Null /\ m_right[b] = Null
      /\ m_root' \in Link /\ TreeTypes /\ Holds
  BY DEF WellFormed, TreeTypes, Link
<1>3. TreeTypes' /\ Holds' /\ treeState' = treeState /\ allocated' = allocated \ {c}
  BY <1>2, DeleteHolds
<1>4. QED  BY <1>1, <1>3 DEF WellFormed

(* del() of a root with one child.                                         *)
LEMMA RootDeleted ==
  ASSUME WellFormed, NEW U,
         Shape(allocated, m_data, m_left, m_right, m_parent, m_root, U),
         NEW x \in allocated, {m_left[m_root], m_right[m_root]} = {Null, x},
         Delete(m_root, m_left, m_right, [m_parent EXCEPT ![x] = Null]), m_root' = x
  PROVE  WellFormed' /\ treeState' = treeState
<1>1. /\ m_left \in [Addr -> Link] /\ m_right \in [Addr -> Link] /\ m_parent \in [Addr -> Link]
      /\ \A b \in Addr \ allocated : m_left[b] = Null /\ m_right[b] = Null
      /\ m_root' \in Link /\ TreeTypes /\ Holds /\ allocated \in SUBSET Addr
      /\ m_root \in allocated
  BY DEF WellFormed, TreeTypes, Link, Shape, Linked
<1>. DEFINE parent == [m_parent EXCEPT ![x] = Null]
<1>2. /\ parent \in [Addr -> Link]
      /\ \A n \in Addr : parent[n] = IF n = x THEN Null ELSE m_parent[n]
  BY <1>1 DEF Link
<1>. HIDE DEF parent
<1>3. Delete(m_root, m_left, m_right, parent)
  BY DEF parent
<1>4. /\ TreeTypes' /\ Holds' /\ treeState' = treeState /\ allocated' = allocated \ {m_root}
      /\ \A n \in allocated \ {m_root} :
           /\ m_data'[n] = m_data[n] /\ m_left'[n] = m_left[n]
           /\ m_right'[n] = m_right[n] /\ m_parent'[n] = parent[n]
  BY <1>1, <1>2, <1>3, DeleteHolds
<1>5. Lifts(allocated, m_data, m_left, m_right, m_parent, m_root, x,
            m_data', m_left', m_right', m_parent')
  BY <1>1, <1>2, <1>4 DEF Lifts
<1>6. \E V : Shape(allocated \ {m_root}, m_data', m_left', m_right', m_parent', x, V)
  BY <1>1, <1>5, RootLeaves
<1>7. QED  BY <1>4, <1>6 DEF WellFormed, IsTree

(* del() of a leaf below another node.                                     *)
LEMMA LeafDeleted ==
  ASSUME WellFormed, NEW U,
         Shape(allocated, m_data, m_left, m_right, m_parent, m_root, U),
         NEW c \in allocated, m_left[c] = Null, m_right[c] = Null,
         NEW q \in allocated, q = m_parent[c],
         Delete(c, IF m_left[q] = c THEN [m_left EXCEPT ![q] = Null] ELSE m_left,
                IF m_left[q] # c /\ m_right[q] = c
                THEN [m_right EXCEPT ![q] = Null] ELSE m_right, m_parent),
         m_root' = m_root
  PROVE  WellFormed' /\ treeState' = treeState
<1>0. TreeFacts(allocated, m_left, m_right, m_parent, m_root, U)
  <2>1. allocated \in SUBSET Addr
    BY DEF WellFormed, TreeTypes
  <2>2. QED  BY <2>1, ShapeFacts, Zenon
<1>1. /\ m_left \in [Addr -> Link] /\ m_right \in [Addr -> Link] /\ m_parent \in [Addr -> Link]
      /\ \A b \in Addr \ allocated : m_left[b] = Null /\ m_right[b] = Null
      /\ m_root' \in Link /\ TreeTypes /\ Holds /\ allocated \in SUBSET Addr
      /\ q \in Addr /\ Null \in Link /\ Null \notin allocated
  BY TreeAssumption DEF WellFormed, TreeTypes, Link
<1>2. PICK left : left = IF m_left[q] = c THEN [m_left EXCEPT ![q] = Null] ELSE m_left
  OBVIOUS
<1>3. PICK right : right = IF m_left[q] # c /\ m_right[q] = c
                           THEN [m_right EXCEPT ![q] = Null] ELSE m_right
  OBVIOUS
<1>4. Delete(c, left, right, m_parent)
  BY <1>2, <1>3
<1>5. /\ \A n \in allocated : m_left[n] = c \/ m_right[n] = c => n = q
      /\ ~(m_left[q] = c /\ m_right[q] = c)
  BY <1>0, <1>1 DEF TreeFacts
<1>6. /\ left \in [Addr -> Link]
      /\ \A n \in Addr : left[n] = IF n = q /\ m_left[q] = c THEN Null ELSE m_left[n]
  BY <1>1, <1>2
<1>7. /\ right \in [Addr -> Link]
      /\ \A n \in Addr : right[n] = IF n = q /\ m_right[q] = c THEN Null ELSE m_right[n]
  BY <1>1, <1>3, <1>5
<1>8. \A b \in Addr \ allocated : left[b] = Null /\ right[b] = Null
  BY <1>1, <1>6, <1>7
<1>9. /\ TreeTypes' /\ Holds' /\ treeState' = treeState /\ allocated' = allocated \ {c}
      /\ \A n \in allocated \ {c} :
           /\ m_data'[n] = m_data[n] /\ m_left'[n] = left[n]
           /\ m_right'[n] = right[n] /\ m_parent'[n] = m_parent[n]
  BY <1>1, <1>4, <1>6, <1>7, <1>8, DeleteHolds
<1>10. Prunes(allocated, m_data, m_left, m_right, m_parent, c,
              m_data', m_left', m_right', m_parent')
  <2>1. ASSUME NEW n \in allocated \ {c}
        PROVE  /\ m_left'[n] = IF m_left[n] = c THEN Null ELSE m_left[n]
               /\ m_right'[n] = IF m_right[n] = c THEN Null ELSE m_right[n]
    BY <1>1, <1>5, <1>6, <1>7, <1>9
  <2>2. QED  BY <1>9, <2>1 DEF Prunes
<1>11. c # m_root
  BY <1>0, <1>1 DEF TreeFacts
<1>12. \E V : Shape(allocated \ {c}, m_data', m_left', m_right', m_parent', m_root, V)
  BY <1>1, <1>10, <1>11, LeafLeaves
<1>13. QED  BY <1>9, <1>12 DEF WellFormed, IsTree

(* The other deletions of a node with at most one child leave an m_parent  *)
(* that dangles and set handedOver.                                        *)
LEMMA AtMostOneChildDeleted ==
  ASSUME WellFormed, NEW U,
         Shape(allocated, m_data, m_left, m_right, m_parent, m_root, U),
         NEW c \in allocated, DelAtMostOneChild(c), ~handedOver'
  PROVE  WellFormed' /\ treeState' = treeState
<1>0. TreeFacts(allocated, m_left, m_right, m_parent, m_root, U)
  <2>1. allocated \in SUBSET Addr
    BY DEF WellFormed, TreeTypes
  <2>2. QED  BY <2>1, ShapeFacts, Zenon
<1>1. PICK side, up, q :
        /\ side = IF m_left[c] = Null THEN m_right ELSE m_left
        /\ up = side[c] /\ q = m_parent[c]
  OBVIOUS
<1>2. /\ m_left[c] = Null \/ m_right[c] = Null
      /\ \/ /\ q = Null /\ up = Null /\ m_root' = Null
            /\ Delete(c, m_left, m_right, m_parent)
         \/ /\ q = Null /\ up # Null /\ m_root' = side[m_root]
            /\ Delete(c, m_left, m_right, [m_parent EXCEPT ![side[m_root]] = Null])
         \/ /\ q \in allocated /\ m_root' = m_root
            /\ Delete(c, IF m_left[q] = c THEN [m_left EXCEPT ![q] = up] ELSE m_left,
                      IF m_left[q] # c /\ m_right[q] = c
                      THEN [m_right EXCEPT ![q] = up] ELSE m_right, m_parent)
         \/ IF q = Null THEN up # Null /\ side[m_root] \notin allocated ELSE q \notin allocated
  BY <1>1 DEF DelAtMostOneChild
<1>3. /\ Null \notin allocated
      /\ q = Null \/ q \in allocated
      /\ q = Null => c = m_root
      /\ up = Null \/ up \in allocated
      /\ {m_left[c], m_right[c]} = {Null, up}
  <2>1. up = IF m_left[c] = Null THEN m_right[c] ELSE m_left[c]
    BY <1>1
  <2>2. {m_left[c], m_right[c]} = {Null, up}
    BY <1>2, <2>1
  <2>3. Null \notin allocated /\ (q = Null \/ q \in allocated) /\ (q = Null => c = m_root)
    BY <1>0, <1>1 DEF TreeFacts
  <2>4. up = Null \/ up \in allocated
    BY <1>0, <2>1 DEF TreeFacts
  <2>5. QED  BY <2>2, <2>3, <2>4
<1>4. q = Null => side[m_root] = up
  BY <1>1, <1>3
<1>5. CASE /\ q = Null /\ up = Null /\ m_root' = Null
           /\ Delete(c, m_left, m_right, m_parent)
  <2>1. m_parent[c] = Null /\ m_left[c] = Null /\ m_right[c] = Null
    BY <1>1, <1>3, <1>5
  <2>2. QED  BY <1>5, <2>1, LastNodeDeleted
<1>6. CASE /\ q = Null /\ up # Null /\ m_root' = side[m_root]
           /\ Delete(c, m_left, m_right, [m_parent EXCEPT ![side[m_root]] = Null])
  <2>1. /\ up \in allocated /\ {m_left[m_root], m_right[m_root]} = {Null, up} /\ m_root' = up
        /\ Delete(m_root, m_left, m_right, [m_parent EXCEPT ![up] = Null])
    BY <1>3, <1>4, <1>6
  <2>2. QED  BY <2>1, RootDeleted
<1>7. CASE /\ q \in allocated /\ m_root' = m_root
           /\ Delete(c, IF m_left[q] = c THEN [m_left EXCEPT ![q] = up] ELSE m_left,
                     IF m_left[q] # c /\ m_right[q] = c
                     THEN [m_right EXCEPT ![q] = up] ELSE m_right, m_parent)
  <2>1. ~OneChild(c)
    BY <1>1, <1>3, <1>7 DEF Delete
  <2>2. up = Null /\ m_left[c] = Null /\ m_right[c] = Null
    BY <1>2, <1>3, <2>1 DEF OneChild
  <2>3. Delete(c, IF m_left[q] = c THEN [m_left EXCEPT ![q] = Null] ELSE m_left,
                  IF m_left[q] # c /\ m_right[q] = c
                  THEN [m_right EXCEPT ![q] = Null] ELSE m_right, m_parent)
    BY <1>7, <2>2, Zenon
  <2>4. QED  BY <1>1, <1>7, <2>2, <2>3, LeafDeleted
<1>8. CASE IF q = Null THEN up # Null /\ side[m_root] \notin allocated ELSE q \notin allocated
  BY <1>3, <1>4, <1>8
<1>9. QED  BY <1>2, <1>5, <1>6, <1>7, <1>8

(* The node c that has two children makes way for the least one on its     *)
(* right, unless that is a leaf and its right child.                       *)
Pitfall(c) == /\ m_left[c] # Null /\ m_right[c] # Null
              /\ m_left[m_right[c]] = Null /\ m_right[m_right[c]] = Null

LEMMA TwoChildrenDeleted ==
  ASSUME WellFormed, NEW U,
         Shape(allocated, m_data, m_left, m_right, m_parent, m_root, U),
         NEW c \in allocated, DelTwoChildren(c)
  PROVE  IF Pitfall(c) THEN Undefined ELSE WellFormed' /\ treeState' = treeState
<1>0. TreeFacts(allocated, m_left, m_right, m_parent, m_root, U)
  <2>1. allocated \in SUBSET Addr
    BY DEF WellFormed, TreeTypes
  <2>2. QED  BY <2>1, ShapeFacts, Zenon
<1>1. /\ m_left \in [Addr -> Link] /\ m_right \in [Addr -> Link] /\ m_parent \in [Addr -> Link]
      /\ \A b \in Addr \ allocated : m_left[b] = Null /\ m_right[b] = Null
      /\ m_root \in Link /\ TreeTypes /\ Holds /\ allocated \in SUBSET Addr
      /\ Null \in Link /\ Null \notin allocated /\ allocated \subseteq Link
  BY TreeAssumption DEF WellFormed, TreeTypes, Link
<1>. DEFINE A == allocated
<1>2. m_left[c] \in A /\ m_right[c] \in A /\ m_left[c] # m_right[c]
  BY <1>0 DEF TreeFacts, DelTwoChildren
<1>3. PICK x : x = Leftmost(m_right[c])
  OBVIOUS
<1>4. /\ x \in U[m_right[c]] /\ m_left[x] = Null
      /\ \A m \in U[m_right[c]] \ {x} : m_data[m] > m_data[x]
  BY <1>1, <1>2, <1>3, LeftmostIsLeast
<1>5. LeastOnRight(A, m_left, m_right, m_parent, U, c, x)
  BY <1>1, <1>2, <1>4, LeastFacts
<1>6. /\ x \in A /\ x # c /\ x # m_left[c] /\ m_right[x] # x /\ m_right[x] # c
      /\ m_parent[x] \in A /\ m_parent[x] # x /\ (m_parent[x] = c <=> x = m_right[c])
      /\ x # m_right[c] => m_left[m_parent[x]] = x
      /\ \A n \in A : /\ m_left[n] = x => n = m_parent[x] /\ n # c /\ x # m_right[c]
                      /\ m_right[n] = x => n = c
  <2>1. m_right[x] # Null => m_right[x] \in A /\ m_right[x] \in Sub(U, m_right[x])
    BY <1>0, <1>5 DEF TreeFacts, LeastOnRight, Sub
  <2>2. m_right[x] # x /\ m_right[x] # c
    BY <1>1, <1>5, <2>1 DEF LeastOnRight
  <2>3. m_parent[x] # x
    <3>1. m_parent[x] = x => m_left[x] = x
      BY <1>2, <1>5 DEF LeastOnRight
    <3>2. QED  BY <1>1, <1>4, <1>5, <3>1 DEF LeastOnRight
  <2>4. QED  BY <1>5, <2>2, <2>3 DEF LeastOnRight
<1>7. PICK tp, s, q : /\ tp = m_parent[x] /\ q = m_parent[c]
                      /\ s = IF x = m_right[c] THEN m_right[x] ELSE m_right[c]
  OBVIOUS
<1>8. PICK left1 : left1 = IF m_left[tp] = x THEN [m_left EXCEPT ![tp] = m_right[x]] ELSE m_left
  OBVIOUS
<1>9. PICK right1 : right1 = IF m_left[tp] = x THEN m_right
                             ELSE [m_right EXCEPT ![tp] = m_right[x]]
  OBVIOUS
<1>10. PICK left, right, parent, moved :
         /\ left = [left1 EXCEPT ![x] = left1[c]]
         /\ right = [right1 EXCEPT ![x] = right1[c]]
         /\ parent = Adopted(c, x, right1[c])
         /\ moved = [parent EXCEPT ![x] = parent[c]]
  OBVIOUS
<1>11. IF \/ x \notin A \/ tp \notin A \/ left1[c] \notin A \/ right1[c] \notin A
          \/ ~({m_right[x], parent[c]} \subseteq A \cup {Null})
       THEN Undefined
       ELSE IF parent[c] = Null
       THEN m_root' = x /\ Delete(c, left, right, moved)
       ELSE /\ IF left[parent[c]] = c
               THEN Delete(c, [left EXCEPT ![parent[c]] = x], right, moved)
               ELSE Delete(c, left, [right EXCEPT ![parent[c]] = x], moved)
            /\ m_root' = m_root
  BY <1>3, <1>7, <1>8, <1>9, <1>10, Zenon DEF DelTwoChildren
<1>12. /\ tp \in A /\ x \in Addr /\ c \in Addr /\ tp \in Addr
       /\ m_right[x] \in A \cup {Null}
       /\ q = Null <=> c = m_root
       /\ q # Null => q \in A /\ c \in {m_left[q], m_right[q]}
       /\ \A n \in A : m_left[n] = c \/ m_right[n] = c => n = q
       /\ q # Null => ~(m_left[q] = c /\ m_right[q] = c)
  <2>1. tp \in A /\ m_right[x] \in A \cup {Null}
    BY <1>0, <1>6, <1>7 DEF TreeFacts
  <2>2. /\ q = Null <=> c = m_root
        /\ q # Null => q \in A /\ c \in {m_left[q], m_right[q]}
        /\ \A n \in A : m_left[n] = c \/ m_right[n] = c => n = q
    BY <1>0, <1>1, <1>7 DEF TreeFacts
  <2>3. q \in A => ~(m_left[q] = c /\ m_right[q] = c)
    BY <1>0, <1>1 DEF TreeFacts
  <2>4. QED  BY <1>1, <1>6, <2>1, <2>2, <2>3
<1>13. /\ left1 \in [Addr -> Link] /\ left1[c] = m_left[c]
       /\ \A b \in Addr \ A : left1[b] = Null
       /\ \A n \in A : left1[n] = IF m_left[n] = x THEN m_right[x] ELSE m_left[n]
  <2>1. \A n \in A : m_left[n] = x => n = tp
    BY <1>6, <1>7
  <2>2. m_right[x] \in Link
    BY <1>1, <1>12
  <2>3. CASE m_left[tp] = x
    <3>1. left1 = [m_left EXCEPT ![tp] = m_right[x]] /\ tp # c
      BY <1>6, <1>8, <1>12, <2>3
    <3>2. QED  BY <1>1, <1>12, <2>1, <2>2, <2>3, <3>1
  <2>4. CASE m_left[tp] # x
    <3>1. left1 = m_left
      BY <1>8, <2>4
    <3>2. QED  BY <1>1, <2>1, <2>4, <3>1
  <2>5. QED  BY <2>3, <2>4
<1>14. /\ right1 \in [Addr -> Link] /\ right1[c] = s
       /\ \A b \in Addr \ A : right1[b] = Null
       /\ \A n \in A \ {c} : right1[n] = m_right[n]
  <2>1. m_left[tp] = x <=> x # m_right[c]
    BY <1>6, <1>7, <1>12
  <2>2. CASE x = m_right[c]
    <3>1. right1 = [m_right EXCEPT ![tp] = m_right[x]] /\ tp = c /\ s = m_right[x]
      BY <1>6, <1>7, <1>9, <2>1, <2>2
    <3>2. m_right[x] \in Link
      BY <1>1, <1>12
    <3>3. QED  BY <1>1, <1>12, <3>1, <3>2
  <2>3. CASE x # m_right[c]
    <3>1. right1 = m_right /\ s = m_right[c]
      BY <1>7, <1>9, <2>1, <2>3
    <3>2. QED  BY <1>1, <3>1
  <2>4. QED  BY <2>2, <2>3
<1>15. /\ s # x /\ s # c /\ s # m_left[c] /\ m_left[c] # c /\ m_right[c] # c
       /\ s \in A \/ (x = m_right[c] /\ s = Null)
  <2>1. m_left[c] # c /\ m_right[c] # c
    <3>1. m_left[c] \in Sub(U, m_left[c]) /\ m_right[c] \in Sub(U, m_right[c])
      BY <1>0, <1>1, <1>2 DEF TreeFacts, Sub
    <3>2. QED  BY <1>0, <3>1 DEF TreeFacts
  <2>2. CASE x = m_right[c]
    <3>1. m_right[x] # m_left[c]
      BY <1>0, <1>1, <1>2, <1>6 DEF TreeFacts
    <3>2. QED  BY <1>6, <1>7, <1>12, <2>1, <2>2, <3>1
  <2>3. CASE x # m_right[c]
    BY <1>2, <1>7, <2>1, <2>3
  <2>4. QED  BY <2>2, <2>3
<1>16. /\ parent \in [Addr -> Link] /\ parent[c] = q
       /\ \A n \in A : parent[n] = IF n \in {s, m_left[c]} THEN x
                                  ELSE IF n = m_right[x] THEN tp ELSE m_parent[n]
  <2>1. parent = [n \in Addr |-> IF n \in {s, m_left[c]} THEN x
                                ELSE IF n = m_right[x] THEN tp ELSE m_parent[n]]
    BY <1>7, <1>10, <1>14 DEF Adopted
  <2>2. x \in Link /\ tp \in Link
    BY <1>1, <1>6, <1>12
  <2>3. parent \in [Addr -> Link]
    BY <1>1, <2>1, <2>2
  <2>4. c \notin {s, m_left[c]} /\ c # m_right[x]
    BY <1>6, <1>15
  <2>5. parent[c] = q
    BY <1>7, <1>12, <2>1, <2>4
  <2>6. \A n \in A : n \in Addr
    BY <1>1
  <2>7. QED  BY <2>1, <2>3, <2>5, <2>6
<1>17. CASE s \notin A
  <2>1. Undefined
    BY <1>11, <1>14, <1>17
  <2>2. Pitfall(c)
    BY <1>1, <1>2, <1>4, <1>7, <1>15, <1>17 DEF Pitfall
  <2>3. QED  BY <2>1, <2>2
<1>18. CASE s \in A
  <2>0. ~Pitfall(c)
    <3>1. SUFFICES ASSUME Pitfall(c) PROVE FALSE
      OBVIOUS
    <3>2. U[m_right[c]] = {m_right[c]}
      <4>1. U[m_right[c]] = {m_right[c]} \cup Sub(U, m_left[m_right[c]])
                                       \cup Sub(U, m_right[m_right[c]])
        BY <1>0, <1>2 DEF TreeFacts
      <4>2. QED  BY <3>1, <4>1 DEF Pitfall, Sub
    <3>3. x = m_right[c]
      BY <1>4, <3>2
    <3>4. s = Null
      BY <1>7, <3>1, <3>3 DEF Pitfall
    <3>5. QED  BY <1>1, <1>18, <3>4
  <2>1. /\ left \in [Addr -> Link]
        /\ \A b \in Addr \ A : left[b] = Null
        /\ \A n \in A \ {c} :
             left[n] = IF n = x THEN m_left[c] ELSE IF m_left[n] = x THEN m_right[x]
                       ELSE m_left[n]
    <3>1. left = [left1 EXCEPT ![x] = m_left[c]] /\ m_left[c] \in Link
      BY <1>1, <1>2, <1>10, <1>13
    <3>2. QED  BY <1>1, <1>6, <1>12, <1>13, <3>1
  <2>2. /\ right \in [Addr -> Link]
        /\ \A b \in Addr \ A : right[b] = Null
        /\ \A n \in A \ {c} : right[n] = IF n = x THEN s ELSE m_right[n]
    <3>1. right = [right1 EXCEPT ![x] = s] /\ s \in Link
      BY <1>1, <1>10, <1>14, <1>18
    <3>2. QED  BY <1>1, <1>6, <1>12, <1>14, <3>1
  <2>3. /\ moved \in [Addr -> Link]
        /\ \A n \in A \ {c} :
             moved[n] = IF n = x THEN q ELSE IF n \in {m_left[c], s} THEN x
                        ELSE IF n = m_right[x] THEN tp ELSE m_parent[n]
    <3>1. moved = [parent EXCEPT ![x] = q] /\ q \in Link
      BY <1>1, <1>10, <1>12, <1>16
    <3>2. \A n \in A \ {c} : moved[n] = IF n = x THEN q ELSE parent[n]
      BY <1>1, <1>16, <3>1
    <3>3. QED  BY <1>16, <3>1, <3>2
  <2>4. /\ q = Null => m_root' = x /\ Delete(c, left, right, moved)
        /\ q # Null =>
             /\ IF left[q] = c
                THEN Delete(c, [left EXCEPT ![q] = x], right, moved)
                ELSE Delete(c, left, [right EXCEPT ![q] = x], moved)
             /\ m_root' = m_root
    BY <1>2, <1>6, <1>11, <1>12, <1>13, <1>14, <1>16, <1>18
  <2>5. q # Null => /\ q \in A \ {c} /\ q # x
                    /\ left[q] = c <=> m_left[q] = c
                    /\ m_left[q] # c => m_right[q] = c
    <3>1. ASSUME q # Null
          PROVE  /\ q \in A \ {c} /\ q # x
                 /\ left[q] = c <=> m_left[q] = c
                 /\ m_left[q] # c => m_right[q] = c
      <4>1. q \in A \ {c} /\ (m_left[q] # c => m_right[q] = c)
        BY <1>12, <1>15, <3>1
      <4>2. q # x
        BY <1>1, <1>4, <1>6, <1>12, <3>1
      <4>3. QED  BY <1>6, <2>1, <4>1, <4>2
    <3>2. QED  BY <3>1
  <2>6. PICK left2, right2 :
          /\ left2 = IF q # Null /\ m_left[q] = c THEN [left EXCEPT ![q] = x] ELSE left
          /\ right2 = IF q # Null /\ m_left[q] # c THEN [right EXCEPT ![q] = x] ELSE right
    OBVIOUS
  <2>7. Delete(c, left2, right2, moved) /\ m_root' = (IF m_root = c THEN x ELSE m_root)
    <3>1. CASE q = Null
      <4>1. left2 = left /\ right2 = right /\ c = m_root
        BY <1>12, <2>6, <3>1
      <4>2. QED  BY <2>4, <3>1, <4>1
    <3>2. CASE q # Null /\ m_left[q] = c
      <4>1. left2 = [left EXCEPT ![q] = x] /\ right2 = right /\ c # m_root /\ left[q] = c
        BY <1>12, <2>5, <2>6, <3>2
      <4>2. QED  BY <2>4, <3>2, <4>1
    <3>3. CASE q # Null /\ m_left[q] # c
      <4>1. left2 = left /\ right2 = [right EXCEPT ![q] = x] /\ c # m_root /\ left[q] # c
        BY <1>12, <2>5, <2>6, <3>3
      <4>2. QED  BY <2>4, <3>3, <4>1
    <3>4. QED  BY <3>1, <3>2, <3>3
  <2>8. /\ left2 \in [Addr -> Link]
        /\ \A b \in Addr \ A : left2[b] = Null
        /\ \A n \in A \ {c} :
             left2[n] = IF n = x THEN m_left[c] ELSE IF m_left[n] = x THEN m_right[x]
                        ELSE IF m_left[n] = c THEN x ELSE m_left[n]
    <3>1. CASE q # Null /\ m_left[q] = c
      <4>1. left2 = [left EXCEPT ![q] = x] /\ q \in A \ {c} /\ q # x /\ x \in Link
        BY <1>1, <1>6, <2>5, <2>6, <3>1
      <4>2. \A n \in A \ {c} : m_left[n] = c <=> n = q
        BY <1>12, <3>1, <4>1
      <4>3. left2 \in [Addr -> Link] /\ \A b \in Addr : left2[b] = IF b = q THEN x ELSE left[b]
        BY <1>1, <2>1, <4>1
      <4>4. \A b \in Addr \ A : left2[b] = Null
        BY <2>1, <4>1, <4>3
      <4>5. ASSUME NEW n \in A \ {c}
            PROVE  left2[n] = IF n = x THEN m_left[c] ELSE IF m_left[n] = x THEN m_right[x]
                              ELSE IF m_left[n] = c THEN x ELSE m_left[n]
        <5>1. CASE n = q
          <6>1. m_left[n] = c /\ n # x /\ c # x /\ left2[n] = x
            BY <1>1, <1>6, <3>1, <4>1, <4>3, <5>1
          <6>2. QED  BY <6>1
        <5>2. CASE n # q
          <6>1. left2[n] = left[n] /\ m_left[n] # c
            BY <1>1, <4>2, <4>3, <5>2
          <6>2. QED  BY <2>1, <6>1
        <5>3. QED  BY <5>1, <5>2
      <4>6. QED  BY <4>3, <4>4, <4>5
    <3>2. CASE ~(q # Null /\ m_left[q] = c)
      <4>1. left2 = left
        BY <2>6, <3>2
      <4>2. \A n \in A \ {c} : m_left[n] # c
        BY <1>1, <1>12, <3>2
      <4>3. QED  BY <2>1, <4>1, <4>2
    <3>3. QED  BY <3>1, <3>2
  <2>9. /\ right2 \in [Addr -> Link]
        /\ \A b \in Addr \ A : right2[b] = Null
        /\ \A n \in A \ {c} :
             right2[n] = IF n = x THEN s ELSE IF m_right[n] = c THEN x ELSE m_right[n]
    <3>1. CASE q # Null /\ m_left[q] # c
      <4>1. /\ right2 = [right EXCEPT ![q] = x] /\ q \in A \ {c} /\ q # x /\ x \in Link
            /\ m_right[q] = c
        BY <1>1, <1>6, <2>5, <2>6, <3>1
      <4>2. \A n \in A \ {c} : m_right[n] = c <=> n = q
        BY <1>12, <4>1
      <4>3. right2 \in [Addr -> Link] /\ \A b \in Addr : right2[b] = IF b = q THEN x ELSE right[b]
        BY <1>1, <2>2, <4>1
      <4>4. \A b \in Addr \ A : right2[b] = Null
        BY <2>2, <4>1, <4>3
      <4>5. ASSUME NEW n \in A \ {c}
            PROVE  right2[n] = IF n = x THEN s ELSE IF m_right[n] = c THEN x ELSE m_right[n]
        BY <1>1, <2>2, <4>1, <4>2, <4>3
      <4>6. QED  BY <4>3, <4>4, <4>5
    <3>2. CASE ~(q # Null /\ m_left[q] # c)
      <4>1. right2 = right
        BY <2>6, <3>2
      <4>2. \A n \in A \ {c} : m_right[n] # c
        BY <1>1, <1>12, <3>2
      <4>3. QED  BY <2>2, <4>1, <4>2
    <3>3. QED  BY <3>1, <3>2
  <2>10. m_root' \in Link
    BY <1>1, <1>6, <2>7
  <2>11. /\ TreeTypes' /\ Holds' /\ treeState' = treeState /\ allocated' = A \ {c}
         /\ \A n \in A \ {c} :
              /\ m_data'[n] = m_data[n] /\ m_left'[n] = left2[n]
              /\ m_right'[n] = right2[n] /\ m_parent'[n] = moved[n]
    BY <1>1, <2>3, <2>7, <2>8, <2>9, <2>10, DeleteHolds
  <2>12. Replaces(A, m_data, m_left, m_right, m_parent, c, x, s,
                  m_data', m_left', m_right', m_parent')
    <3>1. m_left[c] # Null /\ m_right[c] # Null
      BY <1>1, <1>2
    <3>2. \A n \in A \ {c} :
            m_left'[n] = IF n = x THEN m_left[c] ELSE IF m_left[n] = x THEN m_right[x]
                         ELSE IF m_left[n] = c THEN x ELSE m_left[n]
      BY <2>8, <2>11
    <3>3. \A n \in A \ {c} :
            m_right'[n] = IF n = x THEN s ELSE IF m_right[n] = c THEN x ELSE m_right[n]
      BY <2>9, <2>11
    <3>4. \A n \in A \ {c} :
            m_parent'[n] = IF n = x THEN m_parent[c] ELSE IF n \in {m_left[c], s} THEN x
                           ELSE IF n = m_right[x] THEN m_parent[x] ELSE m_parent[n]
      BY <1>7, <2>3, <2>11
    <3>5. QED  BY <1>4, <1>7, <2>11, <3>1, <3>2, <3>3, <3>4 DEF Replaces
  <2>13. \E V : Shape(A \ {c}, m_data', m_left', m_right', m_parent',
                      IF m_root = c THEN x ELSE m_root, V)
    BY <1>1, <1>4, <2>12, SuccessorStandsIn
  <2>14. IsTree'
    BY <2>7, <2>11, <2>13 DEF IsTree
  <2>15. QED  BY <2>0, <2>11, <2>14 DEF WellFormed
<1>19. QED  BY <1>17, <1>18

-----------------------------------------------------------------------------
(* del() keeps the tree well formed, hands a child over or falls into the  *)
(* pit.                                                                    *)
LEMMA DeletedOrHarmed ==
  ASSUME WellFormed, ~handedOver, NEW t \in Keys, Del(t)
  PROVE  IF DelPitfall(t) THEN Undefined
         ELSE treeState' = treeState /\ (handedOver' \/ WellFormed')
<1>1. TreeTypes /\ Holds /\ allocated # {} /\ m_size > 0 /\ allocated \in SUBSET Addr
  BY SizeTells DEF WellFormed, Del, TreeTypes
<1>2. PICK U : Shape(allocated, m_data, m_left, m_right, m_parent, m_root, U)
  BY <1>1 DEF WellFormed, IsTree
<1>3. PICK c : c = Descend(t)
  OBVIOUS
<1>4. c \in allocated
  <2>1. t \in Int
    BY TreeAssumption
  <2>2. QED  BY <1>1, <1>2, <1>3, <2>1, DescendFinds
<1>5. DelPitfall(t) <=> m_data[c] = t /\ Pitfall(c)
  BY <1>1, <1>3, <1>4 DEF DelPitfall, Found, Pitfall
<1>6. CASE m_data[c] # t
  <2>1. UNCHANGED treeVars
    BY <1>3, <1>4, <1>6 DEF Del
  <2>2. QED
    BY <1>5, <1>6, <2>1 DEF treeVars, nodeVars, WellFormed, TreeTypes, Holds, IsTree
<1>7. CASE m_data[c] = t /\ DelTwoChildren(c)
  BY <1>2, <1>4, <1>5, <1>7, TwoChildrenDeleted
<1>8. CASE m_data[c] = t /\ DelAtMostOneChild(c)
  <2>1. ~Pitfall(c)
    BY <1>8 DEF Pitfall, DelAtMostOneChild
  <2>2. CASE handedOver'
    <3>1. ~Undefined
      BY <2>2 DEF Undefined
    <3>2. treeState' = treeState
      BY <1>8, <3>1 DEF DelAtMostOneChild, Delete
    <3>3. QED  BY <1>5, <2>1, <2>2, <3>2
  <2>3. CASE ~handedOver'
    BY <1>2, <1>4, <1>5, <1>8, <2>1, <2>3, AtMostOneChildDeleted
  <2>4. QED  BY <2>2, <2>3
<1>9. QED  BY <1>3, <1>4, <1>6, <1>7, <1>8 DEF Del

(* The destructor follows a wild pointer if and only if there never was a  *)
(* node.                                                                   *)
LEMMA DestroysAll ==
  ASSUME WellFormed, Destroy
  PROVE  treeState' = IF allocated = {} /\ m_root # Null THEN "undefined" ELSE "destroyed"
<1>1. CASE allocated # {}
  <2>1. PICK U : Shape(allocated, m_data, m_left, m_right, m_parent, m_root, U)
    BY <1>1 DEF WellFormed, IsTree
  <2>2. Reachable = allocated
    BY <2>1, AllReached DEF WellFormed
  <2>3. \A n \in allocated : ~(Pointers(n) > 1)
    BY <2>1, OnePointerEach DEF WellFormed
  <2>4. QED  BY <1>1, <2>2, <2>3 DEF Destroy
<1>2. CASE allocated = {}
  <2>1. IF m_root = Null THEN Reachable = {} ELSE m_root \in Reachable
    BY RootReached DEF WellFormed
  <2>2. QED  BY <1>2, <2>1 DEF Destroy, Undefined
<1>3. QED  BY <1>1, <1>2

(* So does travPrint(), and else it changes nothing.                       *)
LEMMA PrintsAll ==
  ASSUME WellFormed, TravPrint
  PROVE  IF allocated = {} /\ m_root # Null THEN Undefined ELSE UNCHANGED treeVars
<1>1. CASE allocated # {}
  <2>1. PICK U : Shape(allocated, m_data, m_left, m_right, m_parent, m_root, U)
    BY <1>1 DEF WellFormed, IsTree
  <2>2. Reachable = allocated
    BY <2>1, AllReached DEF WellFormed
  <2>3. ASSUME NEW C \in SUBSET (Reachable \cap Addr), C # {},
               \A n \in C : {m_left[n], m_right[n]} \cap C # {}
        PROVE  FALSE
    <3>1. C \in SUBSET allocated
      BY <2>2
    <3>2. \E n \in C : {m_left[n], m_right[n]} \cap C = {}
      BY <2>1, <2>3, <3>1, NoWayRound DEF WellFormed
    <3>3. QED  BY <2>3, <3>2
  <2>4. QED  BY <1>1, <2>2, <2>3 DEF TravPrint
<1>2. CASE allocated = {}
  <2>1. IF m_root = Null THEN Reachable = {} ELSE m_root \in Reachable
    BY RootReached DEF WellFormed
  <2>2. CASE m_root = Null
    <3>1. ~\E C \in SUBSET (Reachable \cap Addr) : C # {}
      BY <2>1, <2>2
    <3>2. QED  BY <1>2, <2>1, <2>2, <3>1 DEF TravPrint
  <2>3. CASE m_root # Null
    BY <1>2, <2>1, <2>3 DEF TravPrint
  <2>4. QED  BY <2>2, <2>3
<1>3. QED  BY <1>1, <1>2

(* search() never is undefined.                                            *)
LEMMA SearchEnds ==
  ASSUME WellFormed, NEW t \in Keys, Search(t)
  PROVE  UNCHANGED treeVars
<1>1. CASE m_size > 0
  <2>1. allocated # {} /\ TreeTypes /\ t \in Int
    BY <1>1, SizeTells, TreeAssumption DEF WellFormed
  <2>2. PICK U : Shape(allocated, m_data, m_left, m_right, m_parent, m_root, U)
    BY <2>1 DEF WellFormed, IsTree
  <2>3. Descend(t) \in allocated
    BY <2>1, <2>2, DescendFinds
  <2>4. QED  BY <2>3 DEF Search
<1>2. CASE ~(m_size > 0)
  BY <1>2 DEF Search
<1>3. QED  BY <1>1, <1>2

(* What the calls do to a well-formed tree, and which are undefined.       *)
LEMMA Calls ==
  ASSUME WellFormed, treeState = "alive", ~handedOver
  PROVE  /\ \A t \in Keys :
              /\ AddRoot(t) \/ AddBelow(t) \/ Search(t) =>
                   treeState' = "alive" /\ WellFormed'
              /\ Del(t) => /\ treeState' = IF DelPitfall(t) THEN "undefined" ELSE "alive"
                           /\ treeState' = "undefined" \/ handedOver' \/ WellFormed'
         /\ TravPrint \/ Destroy =>
              (treeState' = "undefined" <=> allocated = {} /\ m_root # Null)
         /\ TravPrint => treeState' = "undefined" \/ WellFormed'
         /\ Destroy => treeState' # "alive"
<1>1. UNCHANGED treeVars => WellFormed' /\ treeState' = "alive"
  BY DEF treeVars, nodeVars, WellFormed, TreeTypes, Holds, IsTree
<1>2. ASSUME NEW t \in Keys, AddRoot(t) \/ AddBelow(t) \/ Search(t)
      PROVE  treeState' = "alive" /\ WellFormed'
  BY <1>1, <1>2, RootAdded, LeafAdded, SearchEnds
<1>3. ASSUME NEW t \in Keys, Del(t)
      PROVE  /\ treeState' = IF DelPitfall(t) THEN "undefined" ELSE "alive"
             /\ treeState' = "undefined" \/ handedOver' \/ WellFormed'
  BY <1>3, DeletedOrHarmed DEF Undefined
<1>4. ASSUME TravPrint
      PROVE  /\ treeState' = "undefined" <=> allocated = {} /\ m_root # Null
             /\ treeState' = "undefined" \/ WellFormed'
  BY <1>1, <1>4, PrintsAll DEF Undefined
<1>5. ASSUME Destroy
      PROVE  /\ treeState' = "undefined" <=> allocated = {} /\ m_root # Null
             /\ treeState' # "alive"
  BY <1>5, DestroysAll
<1>6. QED  BY <1>2, <1>3, <1>4, <1>5

(* Every step keeps the invariant.                                         *)
LEMMA TreeSteps ==
  ASSUME TreeInv, [TreeNext]_treeVars
  PROVE  TreeInv'
<1>1. CASE UNCHANGED treeVars
  BY <1>1 DEF treeVars, nodeVars, TreeInv, WellFormed, TreeTypes, Holds, IsTree
<1>2. CASE TreeNext /\ handedOver
  <2>1. ASSUME NEW t \in Keys, AddRoot(t) PROVE handedOver'
    BY <1>2, <2>1 DEF AddRoot
  <2>2. ASSUME NEW t \in Keys, AddBelow(t) PROVE handedOver'
    BY <1>2, <2>2 DEF AddBelow, Undefined, treeVars
  <2>3. ASSUME NEW t \in Keys, Del(t) PROVE handedOver'
    BY <1>2, <2>3 DEF Del, DelAtMostOneChild, DelTwoChildren, Delete, Undefined, treeVars
  <2>4. ASSUME NEW t \in Keys, Search(t) PROVE handedOver'
    BY <1>2, <2>4 DEF Search, Undefined, treeVars
  <2>5. TravPrint \/ Destroy => handedOver'
    BY <1>2 DEF TravPrint, Destroy, Undefined, treeVars
  <2>6. handedOver'
    BY <1>2, <2>1, <2>2, <2>3, <2>4, <2>5 DEF TreeNext
  <2>7. QED  BY <1>2, <2>6 DEF TreeInv
<1>3. CASE TreeNext /\ ~handedOver
  <2>1. WellFormed /\ treeState = "alive"
    BY <1>3 DEF TreeNext, TreeInv
  <2>2. treeState' # "alive" \/ handedOver' \/ WellFormed'
    BY <1>3, <2>1, Calls DEF TreeNext
  <2>3. QED  BY <2>2 DEF TreeInv
<1>4. QED  BY <1>1, <1>2, <1>3 DEF TreeNext

(* The invariant holds in every state.                                     *)
LEMMA TreeInvAlways == TreeSpec => []TreeInv
<1>1. TreeInit => TreeInv
  BY TreeBegins DEF TreeInv
<1>2. TreeInv /\ [TreeNext]_treeVars => TreeInv'
  BY TreeSteps
<1>3. QED  BY <1>1, <1>2, PTL DEF TreeSpec

(* What TreeIsSet says of a well-formed tree.                              *)
LEMMA WellFormedIsSet ==
  ASSUME WellFormed
  PROVE  /\ \A t \in Keys : Found(t) <=> t \in contents
         /\ m_size = Cardinality(contents)
         /\ IF m_size = 0 THEN allocated = {}
            ELSE /\ allocated = Reachable /\ m_parent[m_root] = Null
                 /\ \A n \in allocated : \A m \in {m_left[n], m_right[n]} \ {Null} :
                      m_parent[m] = n
<1>1. /\ m_size = 0 <=> allocated = {}
      /\ m_size > 0 <=> allocated # {}
      /\ TreeTypes /\ Holds
  BY SizeTells DEF WellFormed
<1>2. m_size = Cardinality(contents) /\ contents = {m_data[n] : n \in allocated}
  BY <1>1 DEF Holds
<1>3. CASE allocated = {}
  BY <1>1, <1>2, <1>3 DEF Found
<1>4. CASE allocated # {}
  <2>1. PICK U : Shape(allocated, m_data, m_left, m_right, m_parent, m_root, U)
    BY <1>4 DEF WellFormed, IsTree
  <2>2. ASSUME NEW t \in Keys PROVE Found(t) <=> t \in contents
    <3>1. t \in Int
      BY TreeAssumption
    <3>2. /\ Descend(t) \in allocated
          /\ \A k \in allocated : m_data[k] = t => Descend(t) = k
      BY <1>1, <2>1, <3>1, DescendFinds
    <3>3. QED  BY <1>1, <1>2, <1>4, <3>2 DEF Found
  <2>3. allocated = Reachable
    BY <1>1, <2>1, AllReached
  <2>4. /\ m_parent[m_root] = Null
        /\ \A n \in allocated : \A m \in {m_left[n], m_right[n]} \ {Null} : m_parent[m] = n
    BY <2>1 DEF Shape, Linked
  <2>5. QED  BY <1>1, <1>2, <1>4, <2>2, <2>3, <2>4
<1>5. QED  BY <1>3, <1>4

(* Until a node with one child is deleted from below another, search()     *)
(* finds exactly the values added and not deleted, size() counts them, no  *)
(* node is lost and m_parent leads back from every child, whatever the     *)
(* values, the addresses and their number: TreeIsSet.                      *)
THEOREM TreeHoldsItsValues == TreeSpec => []TreeIsSet
<1>1. TreeInv => TreeIsSet
  BY WellFormedIsSet DEF TreeInv, TreeIsSet
<1>2. QED  BY <1>1, TreeInvAlways, PTL

(* Until then exactly three calls follow a null or wild pointer, for any   *)
(* keys and addresses: del() of a node with two children whose right one   *)
(* is a leaf, and travPrint() and the destructor of a tree that never had  *)
(* a node, when m_root happens not to be null: HarmBeginsInDel.            *)
THEOREM HarmIsKnown == TreeSpec => HarmBeginsInDel
<1>1. TreeInv =>
        [treeState = "alive" /\ ~handedOver =>
           /\ \A t \in Keys :
                /\ treeState' # "alive" => ~(AddRoot(t) \/ AddBelow(t) \/ Search(t))
                /\ Del(t) => (treeState' = "undefined" <=> DelPitfall(t))
           /\ TravPrint \/ Destroy =>
                (treeState' = "undefined" <=> allocated = {} /\ m_root # Null)]_treeVars
  <2>1. SUFFICES ASSUME WellFormed, treeState = "alive", ~handedOver
                 PROVE  /\ \A t \in Keys :
                             /\ treeState' # "alive" => ~(AddRoot(t) \/ AddBelow(t) \/ Search(t))
                             /\ Del(t) => (treeState' = "undefined" <=> DelPitfall(t))
                        /\ TravPrint \/ Destroy =>
                             (treeState' = "undefined" <=> allocated = {} /\ m_root # Null)
    BY DEF TreeInv
  <2>2. QED  BY <2>1, Calls
<1>2. QED  BY <1>1, TreeInvAlways, PTL DEF HarmBeginsInDel

=============================================================================
