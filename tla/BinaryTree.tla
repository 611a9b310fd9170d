----------------------------- MODULE BinaryTree ------------------------------
(***************************************************************************)
(* nnero::tree::BinaryTree: nodes in memory with pointers to their parent  *)
(* and children.  An address is one of Addr or Null; operator new gives    *)
(* any free address, one that was used before too.  Where the code follows *)
(* a null or dangling pointer its behaviour is undefined and the run ends. *)
(***************************************************************************)
EXTENDS Integers, FiniteSets

CONSTANTS Keys,   \* the values of type T
          Addr,   \* addresses
          Null    \* nullptr

ASSUME TreeAssumption ==
  /\ Keys \subseteq Int
  /\ IsFiniteSet(Addr) /\ Null \notin Addr \cup Int

VARIABLES
  m_data, m_left, m_right, m_parent,   \* of the nodes: [Addr -> ...]
  m_root, m_size,                      \* of the tree
  allocated,   \* SUBSET Addr: nodes created and not deleted
  treeState,   \* "alive", "destroyed" or "undefined"
  contents,    \* SUBSET Keys, history: added and not deleted
  handedOver   \* BOOLEAN, history: a node below another was deleted that had
               \* one child

nodeVars == <<m_data, m_left, m_right, m_parent>>
treeVars == <<nodeVars, m_root, m_size, allocated, treeState, contents, handedOver>>

Link == Addr \cup {Null}
Unlinked == [a \in Addr |-> Null]

(* m_root is not initialised.                                              *)
TreeInit ==
  /\ m_data = Unlinked /\ m_left = Unlinked
  /\ m_right = Unlinked /\ m_parent = Unlinked
  /\ m_root \in Link
  /\ m_size = 0 /\ allocated = {} /\ treeState = "alive"
  /\ contents = {} /\ handedOver = FALSE

-----------------------------------------------------------------------------
(* The loops that add(), del() and search() begin with: the node where the *)
(* search for t ends, which holds t or lacks the child to go on with; Null *)
(* if it goes round for ever.                                              *)
Next_(n, t) == IF t > m_data[n] THEN m_right[n] ELSE m_left[n]

Ends(n, t) == n \notin allocated \/ m_data[n] = t \/ Next_(n, t) = Null

Descend(t) ==
  LET at[i \in 0..Cardinality(Addr)] ==
        IF i = 0 THEN m_root
        ELSE IF Ends(at[i-1], t) THEN at[i-1] ELSE Next_(at[i-1], t)
      last == at[Cardinality(Addr)]
  IN IF last = Null \/ ~Ends(last, t) THEN Null ELSE last

Found(t) == m_size > 0 /\ Descend(t) \in allocated /\ m_data[Descend(t)] = t

Leftmost(n) ==
  LET at[i \in 0..Cardinality(Addr)] ==
        IF i = 0 THEN n
        ELSE IF at[i-1] \notin allocated \/ m_left[at[i-1]] = Null THEN at[i-1]
        ELSE m_left[at[i-1]]
      last == at[Cardinality(Addr)]
  IN IF last \in allocated /\ m_left[last] # Null THEN Null ELSE last

Undefined ==
  /\ treeState' = "undefined"
  /\ UNCHANGED <<nodeVars, m_root, m_size, allocated, contents, handedOver>>

-----------------------------------------------------------------------------
New(a, t, parent) ==
  /\ a \notin allocated
  /\ allocated' = allocated \cup {a}
  /\ m_data' = [m_data EXCEPT ![a] = t]
  /\ m_parent' = [m_parent EXCEPT ![a] = parent]
  /\ m_size' = m_size + 1
  /\ contents' = contents \cup {t}

AddRoot(t) ==
  /\ m_size = 0
  /\ \E a \in Addr : New(a, t, Null) /\ m_root' = a
  /\ UNCHANGED <<m_left, m_right, treeState, handedOver>>

AddBelow(t) ==
  /\ m_size > 0
  /\ LET n == Descend(t) IN
     IF n \notin allocated THEN Undefined
     ELSE IF m_data[n] = t THEN UNCHANGED treeVars
     ELSE \E a \in Addr :
            /\ New(a, t, n)
            /\ IF t > m_data[n]
               THEN m_right' = [m_right EXCEPT ![n] = a] /\ UNCHANGED m_left
               ELSE m_left' = [m_left EXCEPT ![n] = a] /\ UNCHANGED m_right
            /\ UNCHANGED <<m_root, treeState, handedOver>>

-----------------------------------------------------------------------------
OneChild(n) == (m_left[n] = Null) # (m_right[n] = Null)

(* del(), once the node c that holds t is found.                           *)
Delete(c, left, right, parent) ==
  /\ allocated' = allocated \ {c}
  /\ m_data' = [m_data EXCEPT ![c] = Null]
  /\ m_left' = [left EXCEPT ![c] = Null]
  /\ m_right' = [right EXCEPT ![c] = Null]
  /\ m_parent' = [parent EXCEPT ![c] = Null]
  /\ m_size' = m_size - 1
  /\ contents' = contents \ {m_data[c]}
  /\ handedOver' = (handedOver \/ (OneChild(c) /\ m_parent[c] # Null))
  /\ UNCHANGED treeState

(* The subtree of c, or nothing, takes the place of c; its root learns of  *)
(* its new parent only if it becomes the root of the tree.                 *)
DelAtMostOneChild(c) ==
  LET side == IF m_left[c] = Null THEN m_right ELSE m_left
      up == side[c]
      p == m_parent[c] IN
  /\ m_left[c] = Null \/ m_right[c] = Null
  /\ \/ /\ p = Null /\ up = Null
        /\ m_root' = Null
        /\ Delete(c, m_left, m_right, m_parent)
     \/ /\ p = Null /\ up # Null /\ side[m_root] \in allocated
        /\ m_root' = side[m_root]
        /\ Delete(c, m_left, m_right, [m_parent EXCEPT ![side[m_root]] = Null])
     \/ /\ p \in allocated
        /\ Delete(c, IF m_left[p] = c THEN [m_left EXCEPT ![p] = up] ELSE m_left,
                  IF m_left[p] # c /\ m_right[p] = c
                  THEN [m_right EXCEPT ![p] = up] ELSE m_right, m_parent)
        /\ UNCHANGED m_root
     \/ /\ IF p = Null THEN up # Null /\ side[m_root] \notin allocated
           ELSE p \notin allocated
        /\ Undefined

(* The children of c, and of the target that takes its place, learn of     *)
(* their new parents; right is c's m_right as the code then finds it.      *)
(* Mutant: but not the left child.                                         *)
AdoptedRight(c, target, right) ==
  [n \in Addr |-> IF n = right THEN target
                 ELSE IF n = m_right[target] THEN m_parent[target] ELSE m_parent[n]]

Adopted(c, target, right) ==
  [n \in Addr |-> IF n \in {right, m_left[c]} THEN target
                 ELSE IF n = m_right[target] THEN m_parent[target] ELSE m_parent[n]]

(* The leftmost node target of the right subtree is unlinked, its own      *)
(* right subtree taking its place, and then takes the place of c.  When it *)
(* is the right child of c the unlinking changes c's m_right, which is     *)
(* followed afterwards.                                                    *)
DelTwoChildren(c) ==
  LET target == Leftmost(m_right[c])
      tp == m_parent[target]
      left1 == IF m_left[tp] = target
               THEN [m_left EXCEPT ![tp] = m_right[target]] ELSE m_left
      right1 == IF m_left[tp] = target
                THEN m_right ELSE [m_right EXCEPT ![tp] = m_right[target]]
      left == [left1 EXCEPT ![target] = left1[c]]
      right == [right1 EXCEPT ![target] = right1[c]]
      parent == Adopted(c, target, right1[c])
      p == parent[c]
      moved == [parent EXCEPT ![target] = p] IN
  /\ m_left[c] # Null /\ m_right[c] # Null
  /\ IF \/ target \notin allocated \/ tp \notin allocated
        \/ left1[c] \notin allocated \/ right1[c] \notin allocated
        \/ ~({m_right[target], p} \subseteq allocated \cup {Null})
     THEN Undefined
     ELSE IF p = Null
     THEN m_root' = target /\ Delete(c, left, right, moved)
     ELSE /\ IF left[p] = c
             THEN Delete(c, [left EXCEPT ![p] = target], right, moved)
             ELSE Delete(c, left, [right EXCEPT ![p] = target], moved)
          /\ UNCHANGED m_root

Del(t) ==
  /\ m_size > 0
  /\ LET c == Descend(t) IN
     IF c \notin allocated THEN Undefined
     ELSE IF m_data[c] # t THEN UNCHANGED treeVars
     ELSE DelAtMostOneChild(c) \/ DelTwoChildren(c)

-----------------------------------------------------------------------------
Reachable ==
  LET within[i \in 0..Cardinality(Addr)] ==
        IF i = 0 THEN {m_root} \ {Null}
        ELSE within[i-1] \cup
             UNION {{m_left[n], m_right[n]} \ {Null} : n \in within[i-1] \cap Addr}
  IN within[Cardinality(Addr)]

Pointers(n) ==
  Cardinality({m \in Reachable : m_left[m] = n}) +
  Cardinality({m \in Reachable : m_right[m] = n}) + (IF m_root = n THEN 1 ELSE 0)

(* The destructor: freeNode() deletes the nodes it reaches, each once if   *)
(* they form a tree.                                                       *)
Destroy ==
  IF \E n \in Reachable : n \notin allocated \/ Pointers(n) > 1 THEN Undefined
  ELSE /\ allocated' = allocated \ Reachable
       /\ m_size' = IF m_root = Null THEN m_size ELSE 0
       /\ treeState' = "destroyed" /\ contents' = {}
       /\ UNCHANGED <<nodeVars, m_root, handedOver>>

(* search() writes nothing; an empty tree is not searched.                 *)
Search(t) ==
  IF m_size > 0 /\ Descend(t) \notin allocated THEN Undefined
  ELSE UNCHANGED treeVars

(* travPrint(): print() visits what it reaches, in order, and goes round   *)
(* for ever if some of that leads back to itself.                          *)
TravPrint ==
  IF \/ ~(Reachable \subseteq allocated)
     \/ \E C \in SUBSET (Reachable \cap Addr) :
          C # {} /\ \A n \in C : {m_left[n], m_right[n]} \cap C # {}
  THEN Undefined
  ELSE UNCHANGED treeVars

TreeNext ==
  /\ treeState = "alive"
  /\ \/ \E t \in Keys : AddRoot(t) \/ AddBelow(t) \/ Del(t) \/ Search(t)
     \/ TravPrint \/ Destroy

TreeSpec == TreeInit /\ [][TreeNext]_treeVars

-----------------------------------------------------------------------------
(* Until a node with one child is deleted from below another the tree is   *)
(* the set of the values added and not deleted: search() finds those and   *)
(* no others, size() counts them, no node is lost, and m_parent leads back *)
(* from every child.  The node that such a del() moves up keeps an         *)
(* m_parent that dangles, and a later del() then links through it.         *)
TreeIsSet ==
  treeState = "alive" /\ ~handedOver =>
    /\ \A t \in Keys : Found(t) <=> t \in contents
    /\ m_size = Cardinality(contents)
    /\ IF m_size = 0 THEN allocated = {}
       ELSE /\ allocated = Reachable /\ m_parent[m_root] = Null
            /\ \A n \in allocated : \A m \in {m_left[n], m_right[n]} \ {Null} :
                 m_parent[m] = n

(* The del() that finds t unlinks the right child of the node that holds   *)
(* it, which is a leaf, and then follows the null pointer that it left.    *)
DelPitfall(t) ==
  /\ Found(t)
  /\ LET c == Descend(t) IN
     /\ m_left[c] # Null /\ m_right[c] # Null
     /\ m_left[m_right[c]] = Null /\ m_right[m_right[c]] = Null

(* Before a child is handed over exactly three calls follow a null or wild *)
(* pointer: a del() of a node with two children of which the right one is  *)
(* a leaf; and travPrint() and the destructor of a tree that never had a   *)
(* node, whose m_root is not initialised, or wild.  No other call does.    *)
HarmBeginsInDel ==
  [][treeState = "alive" /\ ~handedOver =>
       /\ \A t \in Keys :
            /\ treeState' # "alive" => ~(AddRoot(t) \/ AddBelow(t) \/ Search(t))
            /\ Del(t) => (treeState' = "undefined" <=> DelPitfall(t))
       /\ TravPrint \/ Destroy =>
            (treeState' = "undefined" <=> allocated = {} /\ m_root # Null)
    ]_treeVars

=============================================================================
