------------------------ MODULE VaultAndRouterProofs ------------------------
(***************************************************************************)
(* What the vault, the swap router and the strategy executor promise,      *)
(* proved for all users, tokens, amounts, bounds and delays.               *)
(***************************************************************************)
EXTENDS MCVaultAndRouter, FHESafeMath128Proofs, FiniteSetTheorems, SequenceTheorems, TLAPS

-----------------------------------------------------------------------------
(* Units: amounts counted one by one.                                      *)

LEMMA UnitsOfOne ==
    ASSUME NEW id, NEW n \in Nat
    PROVE  IsFiniteSet({id} \X (1 .. n)) /\ Cardinality({id} \X (1 .. n)) = n
<1>1. IsFiniteSet({id}) /\ Cardinality({id}) = 1
  BY FS_Singleton
<1>2. IsFiniteSet(1 .. n) /\ Cardinality(1 .. n) = n
  <2>1. 1 \in Int /\ n \in Int
    OBVIOUS
  <2>2. /\ IsFiniteSet(1 .. n)
        /\ Cardinality(1 .. n) = IF 1 > n THEN 0 ELSE n - 1 + 1
    BY <2>1, FS_Interval
  <2> QED BY <2>2
<1>3. /\ IsFiniteSet({id} \X (1 .. n))
      /\ Cardinality({id} \X (1 .. n)) = Cardinality({id}) * Cardinality(1 .. n)
  BY <1>1, <1>2, FS_Product
<1> QED BY <1>1, <1>2, <1>3

\* The units of one holder beside those of the others.
Beside(S, id, n, U) ==
    /\ IsFiniteSet(S) /\ n \in Nat
    /\ S \cap ({id} \X (1 .. n)) = {} /\ U = S \cup ({id} \X (1 .. n))

LEMMA UnitsBeside ==
    ASSUME NEW S, NEW id, NEW n, NEW U, Beside(S, id, n, U)
    PROVE  IsFiniteSet(U) /\ Cardinality(U) = Cardinality(S) + n
<1>1. PICK T : T = {id} \X (1 .. n)
  OBVIOUS
<1>2. n \in Nat /\ IsFiniteSet(S) /\ S \cap T = {} /\ U = S \cup T
  BY <1>1 DEF Beside
<1>3. IsFiniteSet(T) /\ Cardinality(T) = n
  BY <1>1, <1>2, UnitsOfOne
<1>4. Cardinality(S) \in Nat /\ Cardinality({}) = 0
  BY <1>2, FS_CardinalityType, FS_EmptySet
<1>5. /\ IsFiniteSet(S \cup T)
      /\ Cardinality(S \cup T) = Cardinality(S) + Cardinality(T) - Cardinality(S \cap T)
  <2>1. IsFiniteSet(S) /\ IsFiniteSet(T)
    BY <1>2, <1>3
  <2> QED BY <2>1, FS_Union, Zenon
<1>6. Cardinality(S \cap T) = 0
  BY <1>2, <1>4
<1> QED BY <1>2, <1>3, <1>4, <1>5, <1>6

-----------------------------------------------------------------------------
(* The vault's books.                                                      *)

\* Swapping an id with the last one and dropping the end takes it out of a list
\* that has it once, and keeps the list free of repetitions.
LEMMA DropIdSwaps ==
    ASSUME NEW P, NEW ids \in Seq(P), NEW k \in 1 .. Len(ids), NEW id, ids[k] = id,
           \A i \in 1 .. Len(ids) : ids[i] = id => i = k
    PROVE  DropId(ids, id) = SubSeq([ids EXCEPT ![k] = ids[Len(ids)]], 1, Len(ids) - 1)
<1> DEFINE I == { i \in 1 .. Len(ids) : ids[i] = id }
<1>1. I = {k}
  OBVIOUS
<1>2. Min({k}) = k
  BY DEF Min
<1>3. Min(I) = k /\ I # {}
  BY <1>1, <1>2
<1>4. DropId(ids, id) =
        IF id \in ToSet(ids)
        THEN Front([ids EXCEPT ![IF I # {} THEN Min(I) ELSE 0] = Last(ids)])
        ELSE ids
  BY DEF DropId, ReplaceAt, SelectInSeq
<1>5. id \in ToSet(ids)
  BY DEF ToSet
<1> HIDE DEF I
<1>6. DropId(ids, id) = Front([ids EXCEPT ![k] = Last(ids)])
  BY <1>3, <1>4, <1>5, Zenon
<1>7. Len([ids EXCEPT ![k] = Last(ids)]) = Len(ids)
  OBVIOUS
<1> QED BY <1>6, <1>7 DEF Front, Last

LEMMA DropIdDrops ==
    ASSUME NEW P, NEW ids \in Seq(P), IsInjective(ids), NEW id \in ToSet(ids),
           NEW new, new = DropId(ids, id)
    PROVE  new \in Seq(P) /\ IsInjective(new) /\ ToSet(new) = ToSet(ids) \ {id}
<1>1. PICK n \in Nat : n = Len(ids) /\ DOMAIN ids = 1 .. n /\ \A i \in 1 .. n : ids[i] \in P
  OBVIOUS
<1>2. PICK k \in 1 .. n : ids[k] = id
  BY <1>1 DEF ToSet
<1>3. \A i \in 1 .. n : ids[i] = id => i = k
  BY <1>1, <1>2 DEF IsInjective
<1> DEFINE swapped == [ids EXCEPT ![k] = ids[n]]
<1>4. /\ swapped \in Seq(P) /\ Len(swapped) = n
      /\ \A i \in 1 .. n : swapped[i] = IF i = k THEN ids[n] ELSE ids[i]
  BY <1>1, <1>2
<1>5. new = SubSeq(swapped, 1, n - 1)
  BY <1>1, <1>2, <1>3, DropIdSwaps
<1> HIDE DEF swapped
<1>6. n - 1 \in Nat /\ n \in 1 .. n
  BY <1>2
<1>7. /\ new \in Seq(P) /\ Len(new) = n - 1
      /\ \A i \in 1 .. n - 1 : new[i] = swapped[i]
  BY <1>4, <1>5, <1>6, SubSeqProperties
<1>8. /\ DOMAIN new = 1 .. n - 1
      /\ \A i \in 1 .. n - 1 : new[i] = IF i = k THEN ids[n] ELSE ids[i]
  BY <1>4, <1>7
<1>9. IsInjective(new)
  BY <1>1, <1>2, <1>6, <1>8 DEF IsInjective
<1>10. ASSUME NEW x \in ToSet(new) PROVE x \in ToSet(ids) \ {id}
  <2>1. PICK i \in 1 .. n - 1 : x = new[i]
    BY <1>8 DEF ToSet
  <2>2. PICK j \in 1 .. n : x = ids[j] /\ j # k
    <3>1. CASE i = k
      BY <1>2, <1>6, <1>8, <2>1, <3>1
    <3>2. CASE i # k
      BY <1>2, <1>6, <1>8, <2>1, <3>2
    <3> QED BY <3>1, <3>2
  <2> QED BY <1>1, <1>3, <2>2 DEF ToSet
<1>11. ASSUME NEW x \in ToSet(ids) \ {id} PROVE x \in ToSet(new)
  <2>1. PICK j \in 1 .. n : x = ids[j] /\ j # k
    BY <1>1, <1>2 DEF ToSet
  <2>2. CASE j = n
    <3>1. k \in 1 .. n - 1 /\ x = new[k]
      BY <1>2, <1>8, <2>1, <2>2
    <3> QED BY <1>8, <3>1 DEF ToSet
  <2>3. CASE j # n
    <3>1. j \in 1 .. n - 1 /\ x = new[j]
      BY <1>8, <2>1, <2>3
    <3> QED BY <1>8, <3>1 DEF ToSet
  <2> QED BY <2>2, <2>3
<1> QED BY <1>7, <1>9, <1>10, <1>11

\* A new id goes behind the others.
LEMMA AppendAdds ==
    ASSUME NEW P, NEW ids \in Seq(P), IsInjective(ids), NEW id \in P, id \notin ToSet(ids)
    PROVE  /\ Append(ids, id) \in Seq(P) /\ IsInjective(Append(ids, id))
           /\ ToSet(Append(ids, id)) = ToSet(ids) \cup {id}
<1>1. PICK n \in Nat : n = Len(ids) /\ DOMAIN ids = 1 .. n
  OBVIOUS
<1>2. PICK new : new = Append(ids, id)
  OBVIOUS
<1>3. /\ new \in Seq(P) /\ DOMAIN new = 1 .. n + 1 /\ new[n + 1] = id
      /\ \A i \in 1 .. n : new[i] = ids[i]
  BY <1>1, <1>2
<1>4. \A i \in 1 .. n : ids[i] # id
  BY <1>1 DEF ToSet
<1>5. IsInjective(new)
  BY <1>1, <1>3, <1>4 DEF IsInjective
<1>6. ToSet(new) = ToSet(ids) \cup {id}
  BY <1>1, <1>3 DEF ToSet
<1> QED BY <1>2, <1>3, <1>5, <1>6

Position == [deposited : Nat, token : Tokens \cup {NoAddress}, strategyId : Slots,
             openedAt : Nat, exists : BOOLEAN,
             owner : Accounts \cup {NoAddress}, beneficiary : Accounts \cup {NoAddress}]

VaultTypes ==
    /\ strategyCount \in Slots /\ now \in Nat
    /\ position \in [PositionIds -> Position]
    /\ userPositionIds \in [Accounts -> Seq(PositionIds)]
    /\ userPositionNonce \in [Accounts -> Nat]
    /\ bal \in [Tokens -> [Accounts \cup {Vault} -> Nat]]

\* An open position is of its beneficiary's, who has had that nonce.
OpenOnes ==
    \A id \in Open : /\ position[id].beneficiary = id[1] /\ position[id].token \in Tokens
                     /\ id[2] < userPositionNonce[id[1]]

Lists ==
    \A u \in Accounts :
        /\ IsInjective(userPositionIds[u])
        /\ \A id \in Open : id[1] = u => id \in ToSet(userPositionIds[u])
        /\ \A id \in ToSet(userPositionIds[u]) :
              /\ id \in PositionIds /\ id[1] = u /\ id[2] < userPositionNonce[u]
              /\ position[id].beneficiary = u
              /\ id \notin Open => position[id] = Cleared(position[id])

Held == \A t \in Tokens :
           IsFiniteSet(Deposited(t)) /\ bal[t][Vault] = Cardinality(Deposited(t))

VaultInv == VaultTypes /\ OpenOnes /\ Lists /\ Held

LEMMA IdFacts ==
    /\ \A id \in PositionIds : id[1] \in Accounts /\ id[2] \in Nat
    /\ \A u \in Accounts, n \in Nat : n < MaxPositions[u] => <<u, n>> \in PositionIds
    /\ Vault \notin Accounts /\ Amounts \subseteq Nat \ {0}
<1>1. MaxPositions \in [Accounts -> Nat]
  BY VaultAssumption
<1>2. ASSUME NEW id \in PositionIds PROVE id[1] \in Accounts /\ id[2] \in Nat
  <2>1. PICK u \in Accounts : id \in {u} \X (0 .. MaxPositions[u] - 1)
    BY DEF PositionIds
  <2> QED BY <1>1, <2>1
<1>3. ASSUME NEW u \in Accounts, NEW n \in Nat, n < MaxPositions[u]
      PROVE  <<u, n>> \in PositionIds
  <2>1. n \in 0 .. MaxPositions[u] - 1
    BY <1>1, <1>3
  <2>2. <<u, n>> \in {u} \X (0 .. MaxPositions[u] - 1)
    BY <2>1
  <2> QED BY <2>2 DEF PositionIds
<1> QED BY <1>2, <1>3, VaultAssumption

\* The units of one holder are replaced by others of its own.
Replaced(R, id, n, m, S, U) ==
    /\ n \in Nat /\ m \in Nat /\ IsFiniteSet(S)
    /\ S = R \cup ({id} \X (1 .. n)) /\ R \cap ({id} \X (1 .. n)) = {}
    /\ U = R \cup ({id} \X (1 .. m)) /\ R \cap ({id} \X (1 .. m)) = {}

LEMMA UnitsReplaced ==
    ASSUME NEW R, NEW id, NEW n, NEW m, NEW S, NEW U, Replaced(R, id, n, m, S, U)
    PROVE  IsFiniteSet(U) /\ Cardinality(U) = Cardinality(S) + m - n
<1>0. n \in Nat /\ m \in Nat /\ IsFiniteSet(S)
  BY DEF Replaced
<1>1. PICK T, V : T = {id} \X (1 .. n) /\ V = {id} \X (1 .. m)
  OBVIOUS
<1>2. /\ S = R \cup T /\ R \cap T = {} /\ U = R \cup V /\ R \cap V = {}
  BY <1>1 DEF Replaced
<1>3. IsFiniteSet(R) /\ Cardinality(R) \in Nat
  <2>1. R \subseteq S
    BY <1>2
  <2> QED BY <1>0, <2>1, FS_Subset, FS_CardinalityType
<1>4. Cardinality(S) = Cardinality(R) + n
  <2>1. Beside(R, id, n, S)
    BY <1>0, <1>1, <1>2, <1>3 DEF Beside
  <2> QED BY <2>1, UnitsBeside
<1>5. IsFiniteSet(U) /\ Cardinality(U) = Cardinality(R) + m
  <2>1. Beside(R, id, m, U)
    BY <1>0, <1>1, <1>2, <1>3 DEF Beside
  <2> QED BY <2>1, UnitsBeside
<1> QED BY <1>0, <1>3, <1>4, <1>5

\* What a position has in the vault of one token.
Units(p, t) == IF p.exists /\ p.token = t THEN p.deposited ELSE 0

\* A call changes one position, and what the vault holds by what the position gains
\* or loses.
LEMMA HeldStep ==
    ASSUME VaultTypes, Held, NEW id \in PositionIds, NEW p \in Position,
           position' = [position EXCEPT ![id] = p],
           \A t \in Tokens :
              bal'[t][Vault] = bal[t][Vault] + Units(p, t) - Units(position[id], t)
    PROVE  Held'
<1>1. SUFFICES ASSUME NEW t \in Tokens
               PROVE  IsFiniteSet(Deposited(t)') /\ bal'[t][Vault] = Cardinality(Deposited(t)')
  BY DEF Held
<1>2. /\ position \in [PositionIds -> Position]
      /\ position'[id] = p /\ \A i \in PositionIds \ {id} : position'[i] = position[i]
  BY DEF VaultTypes
<1>3. PICK n \in Nat, m \in Nat : n = Units(position[id], t) /\ m = Units(p, t)
  BY <1>2 DEF Units, Position
<1>4. PICK R : R = UNION { {i} \X (1 .. position[i].deposited) :
                              i \in { j \in PositionIds \ {id} :
                                         position[j].exists /\ position[j].token = t } }
  OBVIOUS
<1>5. PICK S, U : S = Deposited(t) /\ U = Deposited(t)'
  OBVIOUS
<1>6. R \cap ({id} \X (1 .. n)) = {} /\ R \cap ({id} \X (1 .. m)) = {}
  BY <1>4
<1>7. S = R \cup ({id} \X (1 .. n))
  BY <1>2, <1>3, <1>4, <1>5 DEF Deposited, Open, Units
<1>8. U = R \cup ({id} \X (1 .. m))
  BY <1>2, <1>3, <1>4, <1>5 DEF Deposited, Open, Units
<1>9. IsFiniteSet(S) /\ bal[t][Vault] = Cardinality(S)
  BY <1>5 DEF Held
<1>10. Replaced(R, id, n, m, S, U)
  BY <1>3, <1>6, <1>7, <1>8, <1>9, Zenon DEF Replaced
<1>11. IsFiniteSet(U) /\ Cardinality(U) = Cardinality(S) + m - n
  BY <1>10, UnitsReplaced
<1>12. bal'[t][Vault] = bal[t][Vault] + m - n
  BY <1>3
<1> QED BY <1>5, <1>9, <1>11, <1>12

\* Tokens pulled in and paid out, as the vault's balances see them.
LEMMA Transferred ==
    ASSUME NEW H, NEW b \in [Tokens -> [H -> Nat]], NEW t \in Tokens,
           NEW x \in H, NEW y \in H, x # y, NEW n \in Nat, b[t][x] >= n,
           NEW c, c = [[b EXCEPT ![t][x] = b[t][x] - n] EXCEPT ![t][y] = b[t][y] + n]
    PROVE  /\ c \in [Tokens -> [H -> Nat]]
           /\ \A u \in Tokens \ {t} : c[u] = b[u]
           /\ c[t][x] = b[t][x] - n /\ c[t][y] = b[t][y] + n
<1> DEFINE mid == [b EXCEPT ![t][x] = b[t][x] - n]
<1>1. /\ mid \in [Tokens -> [H -> Nat]]
      /\ \A u \in Tokens \ {t} : mid[u] = b[u]
      /\ mid[t][x] = b[t][x] - n /\ mid[t][y] = b[t][y]
  OBVIOUS
<1>2. c = [mid EXCEPT ![t][y] = b[t][y] + n]
  OBVIOUS
<1> HIDE DEF mid
<1> QED BY <1>1, <1>2

LEMMA PulledIn ==
    ASSUME bal \in [Tokens -> [Accounts \cup {Vault} -> Nat]], NEW t \in Tokens,
           NEW from \in Accounts, NEW amount \in Nat, PullFrom(t, from, amount)
    PROVE  /\ bal' \in [Tokens -> [Accounts \cup {Vault} -> Nat]]
           /\ \A u \in Tokens :
                 bal'[u][Vault] = bal[u][Vault] + IF u = t THEN amount ELSE 0
<1>1. from # Vault /\ bal[t][from] >= amount
      /\ bal' = [[bal EXCEPT ![t][from] = bal[t][from] - amount]
                     EXCEPT ![t][Vault] = bal[t][Vault] + amount]
  BY IdFacts DEF PullFrom
<1>2. PICK H, b, c : H = Accounts \cup {Vault} /\ b = bal /\ c = bal'
  OBVIOUS
<1>3. /\ b \in [Tokens -> [H -> Nat]] /\ from \in H /\ Vault \in H /\ b[t][from] >= amount
      /\ c = [[b EXCEPT ![t][from] = b[t][from] - amount]
                   EXCEPT ![t][Vault] = b[t][Vault] + amount]
  BY <1>1, <1>2
<1>4. /\ c \in [Tokens -> [H -> Nat]] /\ c[t][Vault] = b[t][Vault] + amount
      /\ \A u \in Tokens \ {t} : c[u] = b[u]
  <2>1. from # Vault
    BY <1>1
  <2> QED BY <1>3, <2>1, Transferred
<1>5. \A u \in Tokens : c[u][Vault] = b[u][Vault] + IF u = t THEN amount ELSE 0
  BY <1>3, <1>4
<1> QED BY <1>2, <1>4, <1>5, Zenon

LEMMA PaidOut ==
    ASSUME bal \in [Tokens -> [Accounts \cup {Vault} -> Nat]], NEW t \in Tokens,
           NEW to \in Accounts, NEW amount \in Nat, PayTo(t, to, amount)
    PROVE  /\ bal' \in [Tokens -> [Accounts \cup {Vault} -> Nat]]
           /\ \A u \in Tokens :
                 bal'[u][Vault] = bal[u][Vault] - IF u = t THEN amount ELSE 0
<1>1. to # Vault /\ bal[t][Vault] >= amount
      /\ bal' = [[bal EXCEPT ![t][Vault] = bal[t][Vault] - amount]
                     EXCEPT ![t][to] = bal[t][to] + amount]
  BY IdFacts DEF PayTo
<1>2. PICK H, b, c : H = Accounts \cup {Vault} /\ b = bal /\ c = bal'
  OBVIOUS
<1>3. /\ b \in [Tokens -> [H -> Nat]] /\ to \in H /\ Vault \in H /\ b[t][Vault] >= amount
      /\ c = [[b EXCEPT ![t][Vault] = b[t][Vault] - amount]
                   EXCEPT ![t][to] = b[t][to] + amount]
  BY <1>1, <1>2
<1>4. /\ c \in [Tokens -> [H -> Nat]] /\ c[t][Vault] = b[t][Vault] - amount
      /\ \A u \in Tokens \ {t} : c[u] = b[u]
  <2>1. to # Vault
    BY <1>1
  <2> QED BY <1>3, <2>1, Transferred
<1>5. \A u \in Tokens : c[u][Vault] = b[u][Vault] - IF u = t THEN amount ELSE 0
  BY <1>3, <1>4
<1> QED BY <1>2, <1>4, <1>5, Zenon

\* A position that stays what it is, or is emptied, in lists that stay.
LEMMA ListsStay ==
    ASSUME VaultTypes, OpenOnes, Lists, NEW id \in PositionIds, NEW p \in Position,
           position' = [position EXCEPT ![id] = p],
           userPositionIds' = userPositionIds, userPositionNonce' = userPositionNonce,
           position[id].exists, p.beneficiary = position[id].beneficiary,
           \/ p.exists /\ p.token = position[id].token
           \/ ~p.exists /\ p = Cleared(p)
    PROVE  OpenOnes' /\ Lists'
<1>1. /\ position'[id] = p /\ \A i \in PositionIds \ {id} : position'[i] = position[i]
  BY DEF VaultTypes
<1>2. Open' \subseteq Open /\ \A i \in Open \ {id} : i \in Open'
  BY <1>1 DEF Open
<1>3. OpenOnes'
  BY <1>1, <1>2 DEF OpenOnes, Open
<1>4. ASSUME NEW u \in Accounts, NEW i \in ToSet(userPositionIds[u])
      PROVE  /\ position'[i].beneficiary = u
             /\ i \notin Open' => position'[i] = Cleared(position'[i])
  <2>1. /\ i \in PositionIds /\ position[i].beneficiary = u
        /\ i \notin Open => position[i] = Cleared(position[i])
    BY <1>4 DEF Lists
  <2>2. CASE i = id
    BY <1>1, <2>1, <2>2 DEF Open
  <2>3. CASE i # id
    BY <1>1, <1>2, <2>1, <2>3
  <2> QED BY <2>2, <2>3
<1>5. ASSUME NEW u \in Accounts, NEW i \in ToSet(userPositionIds'[u])
      PROVE  /\ i \in PositionIds /\ i[1] = u /\ i[2] < userPositionNonce'[u]
             /\ position'[i].beneficiary = u
             /\ i \notin Open' => position'[i] = Cleared(position'[i])
  BY <1>4, <1>5 DEF Lists
<1>6. ASSUME NEW u \in Accounts
      PROVE  /\ IsInjective(userPositionIds'[u])
             /\ \A i \in Open' : i[1] = u => i \in ToSet(userPositionIds'[u])
  BY <1>2 DEF Lists
<1> QED BY <1>3, <1>5, <1>6 DEF Lists

\* A position that is emptied and leaves its list.
LEMMA ListsDrop ==
    ASSUME VaultTypes, OpenOnes, Lists, NEW id \in PositionIds, NEW p \in Position,
           position' = [position EXCEPT ![id] = p], ~p.exists, position[id].exists,
           NEW u, u = position[id].beneficiary,
           userPositionIds' = [userPositionIds EXCEPT ![u] = DropId(userPositionIds[u], id)],
           userPositionNonce' = userPositionNonce
    PROVE  OpenOnes' /\ Lists' /\ userPositionIds' \in [Accounts -> Seq(PositionIds)]
<1>1. /\ position'[id] = p /\ \A i \in PositionIds \ {id} : position'[i] = position[i]
      /\ userPositionIds \in [Accounts -> Seq(PositionIds)]
  BY DEF VaultTypes
<1>2. Open' = Open \ {id} /\ id \in Open
  BY <1>1 DEF Open
<1>3. u \in Accounts /\ id[1] = u
  BY <1>2, IdFacts DEF OpenOnes
<1>4. PICK old : old = userPositionIds[u]
  OBVIOUS
<1>5. PICK new : new = userPositionIds'[u]
  OBVIOUS
<1>6. old \in Seq(PositionIds) /\ IsInjective(old) /\ id \in ToSet(old)
  BY <1>1, <1>2, <1>3, <1>4 DEF Lists
<1>7. new = DropId(old, id)
  BY <1>1, <1>3, <1>4, <1>5
<1>8. new \in Seq(PositionIds) /\ IsInjective(new) /\ ToSet(new) = ToSet(old) \ {id}
  BY <1>6, <1>7, DropIdDrops
<1>9. /\ userPositionIds'[u] = new
      /\ \A v \in Accounts \ {u} : userPositionIds'[v] = userPositionIds[v]
      /\ userPositionIds' \in [Accounts -> Seq(PositionIds)]
  BY <1>1, <1>3, <1>5, <1>8
<1>10. OpenOnes'
  BY <1>1, <1>2 DEF OpenOnes, Open
<1>11. ASSUME NEW v \in Accounts
       PROVE  /\ IsInjective(userPositionIds'[v])
              /\ \A i \in Open' : i[1] = v => i \in ToSet(userPositionIds'[v])
              /\ ToSet(userPositionIds'[v]) \subseteq ToSet(userPositionIds[v]) \ {id}
  <2>0. id \notin ToSet(userPositionIds[v]) \/ v = u
    BY <1>3, <1>11 DEF Lists
  <2>1. CASE v = u
    <3>1. \A i \in Open' : i[1] = u => i \in ToSet(old) /\ i # id
      BY <1>2, <1>3, <1>4 DEF Lists
    <3> QED BY <1>4, <1>8, <1>9, <2>1, <3>1
  <2>2. CASE v # u
    <3>1. userPositionIds'[v] = userPositionIds[v]
      BY <1>9, <1>11, <2>2
    <3> QED BY <1>2, <1>11, <2>0, <2>2, <3>1 DEF Lists
  <2> QED BY <2>1, <2>2
<1>12. ASSUME NEW v \in Accounts, NEW i \in ToSet(userPositionIds'[v])
       PROVE  /\ i \in PositionIds /\ i[1] = v /\ i[2] < userPositionNonce'[v]
              /\ position'[i].beneficiary = v
              /\ i \notin Open' => position'[i] = Cleared(position'[i])
  <2>1. i \in ToSet(userPositionIds[v]) /\ i # id
    BY <1>11, <1>12
  <2>2. /\ i \in PositionIds /\ i[1] = v /\ i[2] < userPositionNonce[v]
        /\ position[i].beneficiary = v
        /\ i \notin Open => position[i] = Cleared(position[i])
    BY <1>12, <2>1 DEF Lists
  <2> QED BY <1>1, <1>2, <2>1, <2>2
<1> QED BY <1>9, <1>10, <1>11, <1>12 DEF Lists

LEMMA OpenStep ==
    ASSUME VaultInv, NEW by \in Accounts, NEW user \in Accounts, NEW t \in Tokens,
           NEW amount \in Amounts, NEW enc, NEW s \in 0 .. strategyCount,
           OpenPosition(by, t, amount, enc, s, user)
    PROVE  VaultInv'
<1>1. /\ amount \in Nat /\ now \in Nat /\ s \in Slots /\ userPositionNonce[user] \in Nat
      /\ userPositionNonce[user] < MaxPositions[user]
      /\ position \in [PositionIds -> Position]
      /\ userPositionIds \in [Accounts -> Seq(PositionIds)]
      /\ bal \in [Tokens -> [Accounts \cup {Vault} -> Nat]]
      /\ userPositionNonce \in [Accounts -> Nat]
  <2>1. amount \in Nat /\ userPositionNonce[user] < MaxPositions[user]
    BY IdFacts DEF OpenPosition
  <2>2. s \in Slots
    <3>1. strategyCount \in 0 .. MaxStrategies /\ MaxStrategies \in Nat
      BY RegistryAssumption DEF VaultInv, VaultTypes, Slots
    <3> QED BY <3>1 DEF Slots
  <2> QED BY <2>1, <2>2 DEF VaultInv, VaultTypes
<1>2. PICK id \in PositionIds : id = <<user, userPositionNonce[user]>>
  BY <1>1, IdFacts
<1>3. id[1] = user /\ id[2] = userPositionNonce[user]
  BY <1>2
<1>4. PICK p \in Position :
        p = [deposited |-> amount, token |-> t, strategyId |-> s, openedAt |-> now,
             exists |-> TRUE, owner |-> by, beneficiary |-> user]
  BY <1>1 DEF Position
<1>5. /\ position' = [position EXCEPT ![id] = p]
      /\ userPositionIds' = [userPositionIds EXCEPT ![user] =
                                Append(userPositionIds[user], id)]
      /\ userPositionNonce' = [userPositionNonce EXCEPT ![user] =
                                userPositionNonce[user] + 1]
      /\ PullFrom(t, by, amount)
      /\ strategyCount' = strategyCount /\ now' = now
  BY <1>2, <1>4 DEF OpenPosition, registry, catalog
<1>6. id \notin Open /\ ~position[id].exists
  BY <1>1, <1>3 DEF VaultInv, OpenOnes, Open
<1>7. id \notin ToSet(userPositionIds[user])
  BY <1>1, <1>3 DEF VaultInv, Lists
<1>8. /\ bal' \in [Tokens -> [Accounts \cup {Vault} -> Nat]]
      /\ \A u \in Tokens : bal'[u][Vault] = bal[u][Vault] + IF u = t THEN amount ELSE 0
  BY <1>1, <1>5, PulledIn
<1>9. p.exists /\ p.token = t /\ p.deposited = amount /\ p.beneficiary = user
  BY <1>4
<1>10. \A u \in Tokens : bal'[u][Vault] = bal[u][Vault] + Units(p, u) - Units(position[id], u)
  <2>1. \A u \in Tokens : bal[u][Vault] \in Nat /\ Units(p, u) \in Nat
                          /\ Units(position[id], u) = 0
    BY <1>1, <1>6, <1>9 DEF Units
  <2> QED BY <1>8, <1>9, <2>1 DEF Units
<1>11. Held'
  BY <1>5, <1>10, HeldStep DEF VaultInv
<1>12. /\ position'[id] = p /\ \A i \in PositionIds \ {id} : position'[i] = position[i]
       /\ position' \in [PositionIds -> Position]
  BY <1>1, <1>5
<1>13. Open' = Open \cup {id}
  BY <1>9, <1>12 DEF Open
<1>14. PICK old, new : old = userPositionIds[user] /\ new = userPositionIds'[user]
  OBVIOUS
<1>15. new = Append(old, id) /\ old \in Seq(PositionIds) /\ IsInjective(old)
       /\ id \notin ToSet(old)
  BY <1>1, <1>5, <1>7, <1>14 DEF VaultInv, Lists
<1>16. new \in Seq(PositionIds) /\ IsInjective(new) /\ ToSet(new) = ToSet(old) \cup {id}
  <2>1. /\ Append(old, id) \in Seq(PositionIds) /\ IsInjective(Append(old, id))
        /\ ToSet(Append(old, id)) = ToSet(old) \cup {id}
    <3>1. old \in Seq(PositionIds) /\ IsInjective(old) /\ id \notin ToSet(old)
      BY <1>15
    <3> QED BY <1>2, <3>1, AppendAdds
  <2> QED BY <1>15, <2>1, Zenon
<1>17. /\ userPositionIds' \in [Accounts -> Seq(PositionIds)]
       /\ \A v \in Accounts \ {user} : userPositionIds'[v] = userPositionIds[v]
  BY <1>1, <1>5, <1>14, <1>16
<1>18. /\ userPositionNonce' \in [Accounts -> Nat]
       /\ \A v \in Accounts, n \in Nat :
             n < userPositionNonce[v] => n < userPositionNonce'[v]
       /\ id[2] < userPositionNonce'[id[1]]
  BY <1>1, <1>3, <1>5
<1>19. OpenOnes'
  <2>1. ASSUME NEW i \in Open'
        PROVE  /\ position'[i].beneficiary = i[1] /\ position'[i].token \in Tokens
               /\ i[2] < userPositionNonce'[i[1]]
    <3>1. CASE i = id
      BY <1>3, <1>9, <1>12, <1>18, <3>1
    <3>2. CASE i # id
      <4>1. i \in Open /\ i \in PositionIds
        BY <1>13, <2>1, <3>2 DEF Open
      <4>2. position'[i] = position[i] /\ i[1] \in Accounts /\ i[2] \in Nat
        BY <1>12, <3>2, <4>1, IdFacts
      <4> QED BY <1>18, <4>1, <4>2 DEF VaultInv, OpenOnes
    <3> QED BY <3>1, <3>2
  <2> QED BY <2>1 DEF OpenOnes
<1>20. ASSUME NEW v \in Accounts
       PROVE  /\ IsInjective(userPositionIds'[v])
              /\ \A i \in Open' : i[1] = v => i \in ToSet(userPositionIds'[v])
  <2>1. CASE v = user
    BY <1>13, <1>14, <1>16, <2>1 DEF VaultInv, Lists
  <2>2. CASE v # user
    BY <1>3, <1>13, <1>17, <1>20, <2>2 DEF VaultInv, Lists
  <2> QED BY <2>1, <2>2
<1>21. ASSUME NEW v \in Accounts, NEW i \in ToSet(userPositionIds'[v])
       PROVE  /\ i \in PositionIds /\ i[1] = v /\ i[2] < userPositionNonce'[v]
              /\ position'[i].beneficiary = v
              /\ i \notin Open' => position'[i] = Cleared(position'[i])
  <2>1. CASE i = id
    <3>1. v = user
      <4>1. CASE v # user
        BY <1>3, <1>17, <1>21, <2>1, <4>1 DEF VaultInv, Lists
      <4> QED BY <4>1
    <3> QED BY <1>3, <1>9, <1>12, <1>13, <1>18, <2>1, <3>1
  <2>2. CASE i # id
    <3>1. i \in ToSet(userPositionIds[v])
      BY <1>14, <1>16, <1>17, <1>21, <2>2
    <3>2. /\ i \in PositionIds /\ i[1] = v /\ i[2] < userPositionNonce[v]
          /\ position[i].beneficiary = v
          /\ i \notin Open => position[i] = Cleared(position[i])
      BY <1>21, <3>1 DEF VaultInv, Lists
    <3>3. position'[i] = position[i] /\ i[2] \in Nat
      BY <1>12, <2>2, <3>2, IdFacts
    <3> QED BY <1>13, <1>18, <1>21, <3>2, <3>3
  <2> QED BY <2>1, <2>2
<1>22. Lists'
  BY <1>20, <1>21 DEF Lists
<1>23. VaultTypes'
  BY <1>1, <1>5, <1>8, <1>12, <1>17, <1>18 DEF VaultInv, VaultTypes
<1> QED BY <1>11, <1>19, <1>22, <1>23 DEF VaultInv

\* A record with a position's fields, and the same emptied.
Shaped(q) == q = [deposited |-> q.deposited, token |-> q.token, strategyId |-> q.strategyId,
                  openedAt |-> q.openedAt, exists |-> q.exists, owner |-> q.owner,
                  beneficiary |-> q.beneficiary]

Emptied(q) == [deposited |-> 0, token |-> NoAddress, strategyId |-> 0, openedAt |-> 0,
               exists |-> FALSE, owner |-> q.owner, beneficiary |-> q.beneficiary]

LEMMA ClearedIs ==
    ASSUME NEW q, Shaped(q)
    PROVE  Cleared(q) = Emptied(q)
<1>1. PICK d, t, s, a, e, o, b :
        q = [deposited |-> d, token |-> t, strategyId |-> s, openedAt |-> a,
             exists |-> e, owner |-> o, beneficiary |-> b]
  BY DEF Shaped
<1>2. PICK x : x = [q EXCEPT !.deposited = 0]
  OBVIOUS
<1>3. PICK y : y = [x EXCEPT !.token = NoAddress]
  OBVIOUS
<1>4. PICK z : z = [y EXCEPT !.strategyId = 0]
  OBVIOUS
<1>5. PICK w : w = [z EXCEPT !.openedAt = 0]
  OBVIOUS
<1>6. PICK v : v = [w EXCEPT !.exists = FALSE]
  OBVIOUS
<1>7. Cleared(q) = v
  BY <1>2, <1>3, <1>4, <1>5, <1>6 DEF Cleared
<1>8. x = [deposited |-> 0, token |-> t, strategyId |-> s, openedAt |-> a,
           exists |-> e, owner |-> o, beneficiary |-> b]
  BY <1>1, <1>2
<1>9. y = [deposited |-> 0, token |-> NoAddress, strategyId |-> s, openedAt |-> a,
           exists |-> e, owner |-> o, beneficiary |-> b]
  BY <1>3, <1>8
<1>10. z = [deposited |-> 0, token |-> NoAddress, strategyId |-> 0, openedAt |-> a,
            exists |-> e, owner |-> o, beneficiary |-> b]
  BY <1>4, <1>9
<1>11. w = [deposited |-> 0, token |-> NoAddress, strategyId |-> 0, openedAt |-> 0,
            exists |-> e, owner |-> o, beneficiary |-> b]
  BY <1>5, <1>10
<1>12. v = [deposited |-> 0, token |-> NoAddress, strategyId |-> 0, openedAt |-> 0,
            exists |-> FALSE, owner |-> o, beneficiary |-> b]
  BY <1>6, <1>11
<1>13. q.owner = o /\ q.beneficiary = b
  BY <1>1
<1> QED BY <1>7, <1>12, <1>13 DEF Emptied

\* What a position is once it is emptied: closed, its beneficiary's, and empty for good.
LEMMA ClearedFacts ==
    ASSUME NEW q \in Position
    PROVE  \E c \in Position : /\ Cleared(q) = c /\ Cleared(c) = c /\ ~c.exists
                              /\ c.beneficiary = q.beneficiary
<1>0. 0 \in Slots
  BY RegistryAssumption DEF Slots
<1>1. /\ q.owner \in Accounts \cup {NoAddress} /\ q.beneficiary \in Accounts \cup {NoAddress}
      /\ Shaped(q)
  BY DEF Position, Shaped
<1>2. PICK c : c = Emptied(q)
  OBVIOUS
<1>3. Cleared(q) = c
  BY <1>1, <1>2, ClearedIs
<1>4. Shaped(c) /\ Emptied(c) = c /\ ~c.exists /\ c.beneficiary = q.beneficiary
  BY <1>2 DEF Emptied, Shaped
<1>5. Cleared(c) = c
  BY <1>4, ClearedIs
<1>6. c \in Position
  BY <1>0, <1>1, <1>2 DEF Position, Emptied
<1> QED BY <1>3, <1>4, <1>5, <1>6

\* A position with another deposit.
LEMMA DepositChanges ==
    ASSUME NEW q \in Position, NEW n \in Nat, NEW r, r = [q EXCEPT !.deposited = n]
    PROVE  /\ r \in Position /\ r.exists = q.exists /\ r.token = q.token
           /\ r.beneficiary = q.beneficiary /\ r.deposited = n
BY DEF Position

LEMMA AddStep ==
    ASSUME VaultInv, NEW by \in Accounts, NEW id \in PositionIds, NEW t \in Tokens,
           NEW amount \in Amounts, NEW enc, NEW granted, NEW user,
           AddCollateral(by, id, t, amount, enc, granted, user)
    PROVE  VaultInv'
<1>1. /\ amount \in Nat /\ position \in [PositionIds -> Position]
      /\ bal \in [Tokens -> [Accounts \cup {Vault} -> Nat]]
  BY IdFacts DEF VaultInv, VaultTypes
<1>2. PICK q \in Position : q = position[id]
  BY <1>1
<1>3. PICK p : p = [q EXCEPT !.deposited = q.deposited + amount]
  OBVIOUS
<1>11. q.exists /\ q.token = t
  BY <1>2 DEF AddCollateral
<1>4. /\ position' = [position EXCEPT ![id] = p]
      /\ PullFrom(t, by, amount)
      /\ userPositionIds' = userPositionIds /\ userPositionNonce' = userPositionNonce
      /\ strategyCount' = strategyCount /\ now' = now
  BY <1>1, <1>2, <1>3 DEF AddCollateral, registry, catalog
<1>5. /\ bal' \in [Tokens -> [Accounts \cup {Vault} -> Nat]]
      /\ \A u \in Tokens : bal'[u][Vault] = bal[u][Vault] + IF u = t THEN amount ELSE 0
  BY <1>1, <1>4, PulledIn
<1>6. /\ p.exists = q.exists /\ p.token = q.token /\ p.beneficiary = q.beneficiary
      /\ p.deposited = q.deposited + amount /\ q.deposited \in Nat /\ p \in Position
  <2>1. q.deposited \in Nat /\ q.deposited + amount \in Nat
    BY <1>1, <1>2 DEF Position
  <2> QED BY <1>2, <1>3, <2>1, DepositChanges
<1>7. \A u \in Tokens : bal'[u][Vault] = bal[u][Vault] + Units(p, u) - Units(position[id], u)
  <2>1. \A u \in Tokens : bal[u][Vault] \in Nat
    BY <1>1
  <2> QED BY <1>1, <1>2, <1>5, <1>6, <1>11, <2>1 DEF Units
<1>8. Held'
  BY <1>4, <1>6, <1>7, HeldStep DEF VaultInv
<1>9. OpenOnes' /\ Lists'
  BY <1>1, <1>2, <1>4, <1>6, <1>11, ListsStay DEF VaultInv
<1>10. VaultTypes'
  BY <1>1, <1>4, <1>5, <1>6 DEF VaultInv, VaultTypes
<1> QED BY <1>8, <1>9, <1>10 DEF VaultInv

LEMMA CloseStep ==
    ASSUME VaultInv, NEW by \in Accounts, NEW id \in PositionIds,
           NEW amount \in Amounts, NEW enc, ClosePosition(by, id, amount, enc)
    PROVE  VaultInv'
<1>1. /\ amount \in Nat /\ position \in [PositionIds -> Position]
      /\ bal \in [Tokens -> [Accounts \cup {Vault} -> Nat]]
  BY IdFacts DEF VaultInv, VaultTypes
<1>2. PICK q \in Position : q = position[id]
  BY <1>1
<1>3. /\ q.exists /\ amount <= q.deposited /\ q.owner = by
      /\ position' = [position EXCEPT ![id] = Remainder(q, amount)]
      /\ userPositionIds' =
            IF amount = q.deposited
            THEN [userPositionIds EXCEPT ![q.beneficiary] =
                     DropId(userPositionIds[q.beneficiary], id)]
            ELSE userPositionIds
      /\ PayTo(q.token, by, amount)
      /\ userPositionNonce' = userPositionNonce
      /\ strategyCount' = strategyCount /\ now' = now
  BY <1>2 DEF ClosePosition, WithinDeposit, registry, catalog
<1>4. q.token \in Tokens /\ q.deposited \in Nat
  BY <1>2, <1>3 DEF VaultInv, OpenOnes, Open, Position
<1>5. PICK p \in Position :
        /\ p = Remainder(q, amount) /\ p.beneficiary = q.beneficiary
        /\ \A u \in Tokens :
              Units(p, u) = Units(q, u) - IF u = q.token THEN amount ELSE 0
        /\ IF amount = q.deposited THEN ~p.exists
           ELSE p.exists /\ p.token = q.token
  <2>1. CASE amount = q.deposited
    <3>1. Remainder(q, amount) = Cleared(q)
      BY <2>1 DEF Remainder
    <3>2. PICK c \in Position : c = Cleared(q) /\ ~c.exists /\ c.beneficiary = q.beneficiary
      BY ClearedFacts
    <3>3. \A u \in Tokens : Units(c, u) = Units(q, u) - IF u = q.token THEN amount ELSE 0
      BY <1>3, <1>4, <2>1, <3>2 DEF Units
    <3> QED BY <2>1, <3>1, <3>2, <3>3
  <2>2. CASE amount # q.deposited
    <3>1. PICK r : r = [q EXCEPT !.deposited = q.deposited - amount]
      OBVIOUS
    <3>2. Remainder(q, amount) = r
      BY <2>2, <3>1 DEF Remainder
    <3>3. /\ r \in Position /\ r.exists = q.exists /\ r.token = q.token
          /\ r.beneficiary = q.beneficiary /\ r.deposited = q.deposited - amount
      <4>1. q.deposited - amount \in Nat
        BY <1>1, <1>3, <1>4
      <4> QED BY <1>2, <3>1, <4>1, DepositChanges
    <3>4. \A u \in Tokens : Units(r, u) = Units(q, u) - IF u = q.token THEN amount ELSE 0
      BY <1>1, <1>3, <1>4, <3>3 DEF Units
    <3> QED BY <1>3, <2>2, <3>2, <3>3, <3>4
  <2> QED BY <2>1, <2>2
<1>6. /\ bal' \in [Tokens -> [Accounts \cup {Vault} -> Nat]]
      /\ \A u \in Tokens :
            bal'[u][Vault] = bal[u][Vault] - IF u = q.token THEN amount ELSE 0
  BY <1>1, <1>3, <1>4, PaidOut
<1>7. \A u \in Tokens : bal'[u][Vault] = bal[u][Vault] + Units(p, u) - Units(position[id], u)
  <2>1. \A u \in Tokens : bal[u][Vault] \in Nat /\ Units(q, u) \in Nat
    BY <1>1, <1>4 DEF Units
  <2> QED BY <1>1, <1>2, <1>5, <1>6, <2>1
<1>8. position' = [position EXCEPT ![id] = p] /\ position[id].exists
      /\ p.beneficiary = position[id].beneficiary
  BY <1>2, <1>3, <1>5
<1>9. Held'
  BY <1>7, <1>8, HeldStep DEF VaultInv
<1>10. OpenOnes' /\ Lists' /\ userPositionIds' \in [Accounts -> Seq(PositionIds)]
  <2>1. CASE amount = q.deposited
    <3>1. ~p.exists /\ userPositionIds' = [userPositionIds EXCEPT ![q.beneficiary] =
                                              DropId(userPositionIds[q.beneficiary], id)]
      BY <1>3, <1>5, <2>1
    <3> QED BY <1>2, <1>3, <1>8, <3>1, ListsDrop DEF VaultInv
  <2>2. CASE amount # q.deposited
    <3>1. p.exists /\ p.token = position[id].token /\ userPositionIds' = userPositionIds
      BY <1>2, <1>3, <1>5, <2>2
    <3> QED BY <1>3, <1>8, <3>1, ListsStay DEF VaultInv, VaultTypes
  <2> QED BY <2>1, <2>2
<1>11. VaultTypes'
  BY <1>1, <1>3, <1>6, <1>8, <1>10 DEF VaultInv, VaultTypes
<1> QED BY <1>9, <1>10, <1>11 DEF VaultInv

LEMMA WithdrawStep ==
    ASSUME VaultInv, NEW by \in Accounts, NEW id \in PositionIds, WithdrawPaused(by, id)
    PROVE  VaultInv'
<1>1. /\ position \in [PositionIds -> Position]
      /\ bal \in [Tokens -> [Accounts \cup {Vault} -> Nat]]
  BY DEF VaultInv, VaultTypes
<1>2. PICK q \in Position : q = position[id]
  BY <1>1
<1>3. /\ q.exists /\ position' = [position EXCEPT ![id] = Cleared(q)]
      /\ PayTo(q.token, by, q.deposited)
      /\ userPositionIds' = userPositionIds /\ userPositionNonce' = userPositionNonce
      /\ strategyCount' = strategyCount /\ now' = now
  BY <1>2 DEF WithdrawPaused, registry, catalog
<1>4. q.token \in Tokens /\ q.deposited \in Nat
  BY <1>2, <1>3 DEF VaultInv, OpenOnes, Open, Position
<1>5. PICK p \in Position : p = Cleared(q) /\ ~p.exists /\ p.beneficiary = q.beneficiary
                            /\ p = Cleared(p)
  BY ClearedFacts
<1>6. /\ bal' \in [Tokens -> [Accounts \cup {Vault} -> Nat]]
      /\ \A u \in Tokens :
            bal'[u][Vault] = bal[u][Vault] - IF u = q.token THEN q.deposited ELSE 0
  BY <1>1, <1>3, <1>4, PaidOut
<1>7. \A u \in Tokens : bal'[u][Vault] = bal[u][Vault] + Units(p, u) - Units(position[id], u)
  <2>1. \A u \in Tokens : bal[u][Vault] \in Nat
    BY <1>1
  <2> QED BY <1>2, <1>3, <1>4, <1>5, <1>6, <2>1 DEF Units
<1>8. position' = [position EXCEPT ![id] = p] /\ position[id].exists
      /\ p.beneficiary = position[id].beneficiary
  BY <1>2, <1>3, <1>5
<1>9. Held'
  BY <1>7, <1>8, HeldStep DEF VaultInv
<1>10. OpenOnes' /\ Lists'
  BY <1>3, <1>5, <1>8, ListsStay DEF VaultInv
<1>11. VaultTypes'
  BY <1>1, <1>3, <1>6, <1>8 DEF VaultInv, VaultTypes
<1> QED BY <1>9, <1>10, <1>11 DEF VaultInv

\* What the books, their balances and the number of strategies are made of.
LEMMA NothingBooked ==
    ASSUME VaultInv, books' = books, bal' = bal, strategyCount' \in Slots, now' \in Nat
    PROVE  VaultInv'
<1>1. /\ position' = position /\ userPositionIds' = userPositionIds
      /\ userPositionNonce' = userPositionNonce
  BY DEF books
<1>2. Open' = Open
  BY <1>1 DEF Open
<1>3. ASSUME NEW t \in Tokens PROVE Deposited(t)' = Deposited(t)
  BY <1>1, <1>2 DEF Deposited
<1>4. Held'
  BY <1>3 DEF VaultInv, Held
<1> QED BY <1>1, <1>2, <1>4 DEF VaultInv, VaultTypes, OpenOnes, Lists

LEMMA RegistryStep == ASSUME VaultInv, RegistryCalls PROVE VaultInv'
<1>1. books' = books /\ bal' = bal /\ now' = now /\ now \in Nat
  BY DEF RegistryCalls, vaultVars, VaultInv, VaultTypes
<1>2. strategyCount \in 0 .. MaxStrategies /\ MaxStrategies \in Nat
  BY RegistryAssumption DEF VaultInv, VaultTypes, Slots
<1>3. strategyCount' \in 0 .. MaxStrategies
  <2>1. ASSUME NEW by, NEW name,
               RegisterStrategy(by, name) \/ ReceiveCrossChainStrategy(by, name)
        PROVE  strategyCount' = strategyCount + 1 /\ strategyCount < MaxStrategies
    BY <2>1 DEF RegisterStrategy, ReceiveCrossChainStrategy
  <2>2. ASSUME NEW by, NEW s, NEW on, SetActive(by, s, on)
        PROVE  strategyCount' = strategyCount
    BY <2>2 DEF SetActive
  <2>3. ASSUME NEW v, SetVault(v) \/ ProposeVault(v)
        PROVE  strategyCount' = strategyCount
    BY <2>3 DEF SetVault, ProposeVault, catalog
  <2>4. ASSUME NEW on, AcceptVault \/ PauseRegistry(on)
        PROVE  strategyCount' = strategyCount
    BY <2>4 DEF AcceptVault, PauseRegistry, catalog
  <2> QED BY <1>2, <2>1, <2>2, <2>3, <2>4 DEF RegistryCalls
<1> QED BY <1>1, <1>3, NothingBooked DEF Slots

LEMMA VaultStart == Init => VaultInv
<1>1. SUFFICES ASSUME Init PROVE VaultInv
  OBVIOUS
<1>2. /\ position = [id \in PositionIds |-> Unused] /\ strategyCount = 0 /\ now = 1
      /\ userPositionIds = [u \in Accounts |-> <<>>]
      /\ userPositionNonce = [u \in Accounts |-> 0]
      /\ bal = [t \in Tokens |-> [h \in Accounts \cup {Vault} |->
                   IF h = Vault THEN 0 ELSE InitialTokens[t][h]]]
  BY <1>1 DEF Init, RegistryInit
<1>3. Unused \in Position /\ ~Unused.exists /\ 0 \in Slots
  BY RegistryAssumption DEF Unused, Position, Slots
<1>4. Open = {}
  BY <1>2, <1>3 DEF Open
<1>5. /\ bal \in [Tokens -> [Accounts \cup {Vault} -> Nat]]
      /\ \A t \in Tokens : bal[t][Vault] = 0
  BY <1>2, VaultAssumption
<1>6. VaultTypes
  BY <1>2, <1>3, <1>5 DEF VaultTypes
<1>7. OpenOnes
  BY <1>4 DEF OpenOnes
<1>8. ASSUME NEW u \in Accounts
      PROVE  IsInjective(userPositionIds[u]) /\ ToSet(userPositionIds[u]) = {}
  <2>1. userPositionIds[u] = <<>> /\ DOMAIN <<>> = {}
    BY <1>2
  <2> QED BY <2>1 DEF IsInjective, ToSet
<1>9. Lists
  BY <1>4, <1>8 DEF Lists
<1>10. ASSUME NEW t \in Tokens
       PROVE  IsFiniteSet(Deposited(t)) /\ bal[t][Vault] = Cardinality(Deposited(t))
  <2>1. Deposited(t) = {}
    BY <1>4 DEF Deposited
  <2> QED BY <1>5, <2>1, FS_EmptySet
<1> QED BY <1>6, <1>7, <1>9, <1>10 DEF VaultInv, Held

LEMMA VaultStep == ASSUME VaultInv, [Next]_vars PROVE VaultInv'
<1>1. ASSUME NEW by \in Accounts, NEW user \in Accounts, NEW amount \in Amounts, NEW e,
             Deposits(by, user, amount, Ct(e))
      PROVE  VaultInv'
  <2>1. PICK t \in Tokens :
          \/ \E s \in 0 .. strategyCount : OpenPosition(by, t, amount, Ct(e), s, user)
          \/ \E id \in PositionIds, granted \in BOOLEAN :
                AddCollateral(by, id, t, amount, Ct(e), granted, user)
    BY <1>1 DEF Deposits
  <2> QED BY <2>1, OpenStep, AddStep
<1>2. ASSUME Returns PROVE VaultInv'
  BY <1>2, CloseStep, WithdrawStep DEF Returns
<1>3. ASSUME Tick \/ UNCHANGED vars \/ \E on \in BOOLEAN : PauseVault(on)
      PROVE  VaultInv'
  <2>1. strategyCount \in Slots /\ now \in Nat
    BY DEF VaultInv, VaultTypes
  <2>2. /\ books' = books /\ bal' = bal /\ strategyCount' = strategyCount
        /\ now' = now \/ now' = now + 1
    BY <1>3 DEF Tick, PauseVault, vars, vaultVars, registry, catalog
  <2> QED BY <2>1, <2>2, NothingBooked
<1> QED BY <1>1, <1>2, <1>3, RegistryStep DEF Next, Others

\* The vault holds of every token exactly what is deposited in open positions,
\* through openings, top-ups by others, partial and full closes and paused
\* withdrawals (StrategyVault.sol:79 to 241).
THEOREM DepositsAreAlwaysHeld == Spec => []DepositsAreHeld
<1>1. VaultInv => DepositsAreHeld
  BY DEF VaultInv, Held, DepositsAreHeld
<1> QED BY VaultStart, VaultStep, <1>1, PTL DEF Spec

\* A user's list has every open position of the user once, whatever swapping with
\* the last one has done to the order, and nothing else that is open
\* (StrategyVault.sol:79 to 241 and 272).
THEOREM ListsAlwaysMatch == Spec => []ListsMatchPositions
<1>1. VaultInv => ListsMatchPositions
  <2>1. SUFFICES ASSUME VaultInv, NEW u \in Accounts
                 PROVE  /\ IsInjective(userPositionIds[u])
                        /\ { id \in Open : position[id].beneficiary = u }
                               \subseteq ToSet(userPositionIds[u])
                        /\ \A id \in ToSet(userPositionIds[u]) :
                               /\ position[id].beneficiary = u
                               /\ id \notin Open => position[id] = Cleared(position[id])
    BY DEF ListsMatchPositions
  <2> QED BY <2>1 DEF VaultInv, OpenOnes, Lists
<1> QED BY VaultStart, VaultStep, <1>1, PTL DEF Spec

-----------------------------------------------------------------------------
(* The role of the executor.                                               *)

RotationInv ==
    part = "router" =>
        /\ now \in Nat
        /\ proposedAt \in [Addresses -> Nat]
        /\ pendingRole \in Addresses \cup {NoAddress}
        /\ pendingRole # NoAddress =>
              pendingRoleEarliest = proposedAt[pendingRole] + ROTATION_DELAY

LEMMA RotationStart == MCInit => RotationInv
<1>1. SUFFICES ASSUME MCInit PROVE RotationInv
  OBVIOUS
<1>2. /\ proposedAt = [a \in Addresses |-> 0] /\ RouterInit
  BY <1>1 DEF MCInit
<1> QED BY <1>2 DEF RouterInit, RotationInit, RotationInv

\* The moves of the router that leave the role alone.
LEMMA OtherRouterMoves ==
    ASSUME RouterNext
    PROVE  \/ /\ rotation' = rotation /\ executor' = executor
              /\ now' = now \/ now' = now + 1
           \/ \E a \in Addresses : ProposeExecutor(a)
           \/ AcceptExecutor
<1>1. ASSUME NEW by, NEW in, NEW out, NEW amount, NEW min,
             \/ \E offset : SubmitSwapIntent(by, in, out, amount, min, offset)
             \/ \E received : SwapViaUniswapV3(by, in, out, amount, min, received)
      PROVE  rotation' = rotation /\ executor' = executor /\ now' = now
  BY <1>1 DEF SubmitSwapIntent, SwapViaUniswapV3
<1>2. ASSUME NEW id, \/ \E by : CancelIntent(by, id)
                     \/ \E by, amount : ExecuteIntent(by, id, amount)
      PROVE  rotation' = rotation /\ executor' = executor /\ now' = now
  BY <1>2 DEF CancelIntent, ExecuteIntent
<1>3. ASSUME NEW from, NEW to, NEW t, NEW amount, ExecutorTransfer(from, to, t, amount)
      PROVE  rotation' = rotation /\ executor' = executor /\ now' = now
  BY <1>3 DEF ExecutorTransfer
<1>4. RouterTick => rotation' = rotation /\ executor' = executor /\ now' = now + 1
  BY DEF RouterTick, routerVars
<1>5. ASSUME NEW on, PauseRouter(on)
      PROVE  rotation' = rotation /\ executor' = executor /\ now' = now
  BY <1>5 DEF PauseRouter
<1> QED BY <1>1, <1>2, <1>3, <1>4, <1>5 DEF RouterNext

LEMMA RotationStep ==
    ASSUME RotationInv, [MCNext]_mcVars
    PROVE  /\ RotationInv'
           /\ executor' # executor => now >= proposedAt[executor'] + ROTATION_DELAY
<1>0. ROTATION_DELAY \in Nat /\ NoAddress \notin Addresses
  BY RotationAssumption
<1>1. CASE UNCHANGED mcVars
  BY <1>1 DEF mcVars, RotationInv, vars, allRouterVars, routerVars, rotation
<1>2. CASE VaultMoves \/ ExecutorMoves
  <2>1. part # "router" /\ executor' = executor
    BY <1>2 DEF VaultMoves, ExecutorMoves, routerOnly, routerVars, allRouterVars
  <2>2. CASE part' = part
    BY <2>1, <2>2 DEF RotationInv
  <2>3. CASE part' # part
    BY <1>2, <2>3 DEF MCNext, mcVars
  <2> QED BY <2>1, <2>2, <2>3
<1>3. CASE RouterMoves
  <2>1. /\ part = "router" /\ RouterNext
        /\ proposedAt' = IF pendingRole' # NoAddress /\ rotation' # rotation
                         THEN [proposedAt EXCEPT ![pendingRole'] = now]
                         ELSE proposedAt
        /\ now \in Nat /\ proposedAt \in [Addresses -> Nat]
        /\ pendingRole \in Addresses \cup {NoAddress}
        /\ pendingRole # NoAddress =>
              pendingRoleEarliest = proposedAt[pendingRole] + ROTATION_DELAY
    BY <1>3 DEF RouterMoves, RotationInv
  <2>2. CASE /\ rotation' = rotation /\ executor' = executor
             /\ now' = now \/ now' = now + 1
    <3>1. pendingRole' = pendingRole /\ pendingRoleEarliest' = pendingRoleEarliest
      BY <2>2 DEF rotation
    <3> QED BY <2>1, <2>2, <3>1 DEF RotationInv
  <2>3. ASSUME NEW a \in Addresses, ProposeExecutor(a)
        PROVE  /\ RotationInv'
               /\ executor' # executor => now >= proposedAt[executor'] + ROTATION_DELAY
    <3>1. /\ pendingRole' = a /\ pendingRoleEarliest' = now + ROTATION_DELAY
          /\ executor' = executor /\ now' = now /\ a # NoAddress
      BY <2>3 DEF ProposeExecutor, ProposeRole, routerVars
    <3>2. CASE rotation' = rotation
      <4>1. pendingRole = a /\ pendingRoleEarliest = now + ROTATION_DELAY
            /\ proposedAt' = proposedAt
        BY <2>1, <3>1, <3>2 DEF rotation
      <4> QED BY <2>1, <3>1, <4>1 DEF RotationInv
    <3>3. CASE rotation' # rotation
      <4>1. proposedAt' = [proposedAt EXCEPT ![a] = now]
        BY <2>1, <3>1, <3>3
      <4> QED BY <2>1, <3>1, <4>1 DEF RotationInv
    <3> QED BY <3>2, <3>3
  <2>4. CASE AcceptExecutor
    <3>1. /\ pendingRole # NoAddress /\ now >= pendingRoleEarliest
          /\ pendingRole' = NoAddress /\ executor' = pendingRole /\ now' = now
      BY <2>4 DEF AcceptExecutor, AcceptRole
    <3>2. proposedAt' = proposedAt
      BY <2>1, <3>1
    <3>3. now >= proposedAt[executor'] + ROTATION_DELAY
      BY <2>1, <3>1
    <3> QED BY <2>1, <3>1, <3>2, <3>3 DEF RotationInv
  <2> QED BY <2>1, <2>2, <2>3, <2>4, OtherRouterMoves
<1> QED BY <1>1, <1>2, <1>3 DEF MCNext

\* Nobody becomes the executor before the delay has passed since the last time
\* that address was proposed, for every delay and every order of proposals and
\* acceptances (TimelockedRotation.sol:30 and 40).
THEOREM RotationAlwaysWaits == MCSpec => RotationWaitsItsDelay
<1>1. RotationInv /\ [MCNext]_mcVars =>
         /\ RotationInv'
         /\ [executor' # executor => now >= proposedAt[executor'] + ROTATION_DELAY]_mcVars
  BY RotationStep
<1> QED BY RotationStart, <1>1, PTL DEF MCSpec, RotationWaitsItsDelay

-----------------------------------------------------------------------------
(* The router's escrow.                                                    *)

\* What a transfer changes, the sender and the receiver being the same or not.
Moved(b, c, t, from, to, amount) ==
    /\ c \in [Traded -> [Holders -> Nat]]
    /\ \A u \in Traded, h \in Holders : u # t => c[u][h] = b[u][h]
    /\ \A h \in Holders : h # from /\ h # to => c[t][h] = b[t][h]
    /\ from # to => c[t][from] = b[t][from] - amount /\ c[t][to] = b[t][to] + amount
    /\ from = to => c[t][to] = b[t][to]

LEMMA MoveMoves ==
    ASSUME NEW b \in [Traded -> [Holders -> Nat]], NEW t \in Traded,
           NEW from \in Holders, NEW to \in Holders, NEW amount \in Nat,
           b[t][from] >= amount, NEW c, c = Move(b, t, from, to, amount)
    PROVE  Moved(b, c, t, from, to, amount)
<1> DEFINE mid == [b EXCEPT ![t][from] = @ - amount]
<1>1. /\ mid \in [Traded -> [Holders -> Nat]]
      /\ \A u \in Traded, h \in Holders : u # t => mid[u][h] = b[u][h]
      /\ \A h \in Holders : h # from => mid[t][h] = b[t][h]
      /\ mid[t][from] = b[t][from] - amount
  OBVIOUS
<1>2. c = [mid EXCEPT ![t][to] = @ + amount]
  BY DEF Move
<1> HIDE DEF mid
<1>3. /\ c \in [Traded -> [Holders -> Nat]]
      /\ \A u \in Traded, h \in Holders : u # t => c[u][h] = mid[u][h]
      /\ \A h \in Holders : h # to => c[t][h] = mid[t][h]
      /\ c[t][to] = mid[t][to] + amount
  BY <1>1, <1>2
<1> QED BY <1>1, <1>3 DEF Moved

Solid ==
    /\ now \in Nat /\ executor \in Addresses
    /\ DOMAIN intents \subseteq IntentIds
    /\ \A id \in DOMAIN intents :
          /\ intents[id] \in Intent /\ intents[id].tokenIn # intents[id].tokenOut
          /\ id[2] < nonces[id[1]]
    /\ nonces \in [Users -> Nat]
    /\ pendingRole \in Addresses \cup {NoAddress}
    /\ holdings \in [Traded -> [Holders -> Nat]]

Covered == \A t \in Traded :
              IsFiniteSet(Escrow(t)) /\ holdings[t][Router] = Cardinality(Escrow(t))

RouterInv == Solid /\ Covered

LEMMA RouterConstants ==
    /\ Router \in Holders /\ Router \notin Users /\ Router \notin Addresses
    /\ Router # Uniswap /\ Uniswap \in Holders
    /\ Users \subseteq Holders /\ Addresses \subseteq Holders
    /\ SwapAmounts \subseteq Nat /\ MIN_DEADLINE_OFFSET .. MAX_DEADLINE_OFFSET \subseteq Nat
<1>1. Router \notin Users \cup Addresses \cup {Uniswap} /\ SwapAmounts \subseteq Nat
      /\ MIN_DEADLINE_OFFSET \in Nat /\ MAX_DEADLINE_OFFSET \in Nat
  BY RouterAssumption
<1> QED BY <1>1 DEF Holders

LEMMA RouterStart == RouterInit => RouterInv
<1>1. SUFFICES ASSUME RouterInit PROVE RouterInv
  OBVIOUS
<1>2. DOMAIN intents = {} /\ holdings = InitialHoldings
  BY <1>1 DEF RouterInit
<1>3. Solid
  <2>1. /\ now = 1 /\ executor = FirstExecutor /\ nonces = [u \in Users |-> 0]
        /\ pendingRole = NoAddress
    BY <1>1 DEF RouterInit, RotationInit
  <2>2. FirstExecutor \in Addresses /\ InitialHoldings \in [Traded -> [Holders -> Nat]]
    BY RouterAssumption
  <2> QED BY <1>2, <2>1, <2>2 DEF Solid
<1>4. ASSUME NEW t \in Traded
      PROVE  IsFiniteSet(Escrow(t)) /\ holdings[t][Router] = Cardinality(Escrow(t))
  <2>1. Escrow(t) = {}
    BY <1>2 DEF Escrow
  <2>2. holdings[t][Router] = 0
    BY <1>2, RouterAssumption
  <2> QED BY <2>1, <2>2, FS_EmptySet
<1> QED BY <1>3, <1>4 DEF RouterInv, Covered

\* A move that leaves the book and the router's own balances alone.
LEMMA BookStays ==
    ASSUME Covered, intents' = intents,
           \A t \in Traded : holdings'[t][Router] = holdings[t][Router]
    PROVE  Covered'
<1>1. ASSUME NEW t \in Traded PROVE Escrow(t)' = Escrow(t)
  BY DEF Escrow
<1> QED BY <1>1 DEF Covered

LEMMA SubmitStep ==
    ASSUME RouterInv, NEW by \in Users, NEW in \in Traded, NEW out \in Traded,
           NEW amount \in SwapAmounts, NEW min \in SwapAmounts,
           NEW offset \in MIN_DEADLINE_OFFSET .. MAX_DEADLINE_OFFSET,
           SubmitSwapIntent(by, in, out, amount, min, offset)
    PROVE  RouterInv' /\ \A id \in DOMAIN intents :
                            id \in DOMAIN intents' /\ intents'[id] = intents[id]
<1> DEFINE id == <<by, nonces[by]>>
           new == [tokenIn |-> in, tokenOut |-> out, amountIn |-> amount,
                   minAmountOut |-> min, user |-> by, deadline |-> now + offset]
<1>1. amount \in Nat /\ min \in Nat /\ offset \in Nat /\ now \in Nat /\ in # out
      /\ nonces \in [Users -> Nat] /\ holdings \in [Traded -> [Holders -> Nat]]
      /\ Router \in Holders /\ by \in Holders /\ by # Router
  BY RouterConstants DEF RouterInv, Solid, SubmitSwapIntent
<1>2. new \in Intent /\ new.tokenIn = in /\ new.tokenOut = out /\ new.amountIn = amount
  BY <1>1 DEF Intent
<1>3. /\ intents' = [i \in DOMAIN intents \cup {id} |-> IF i = id THEN new ELSE intents[i]]
      /\ nonces' = [nonces EXCEPT ![by] = nonces[by] + 1]
      /\ holdings' = Move(holdings, in, by, Router, amount)
      /\ holdings[in][by] >= amount
      /\ executor' = executor /\ now' = now /\ pendingRole' = pendingRole
  BY DEF SubmitSwapIntent, rotation
<1>4. id \notin DOMAIN intents
  <2>1. id[1] = by /\ id[2] = nonces[by] /\ nonces[by] \in Nat
    BY <1>1
  <2> QED BY <2>1 DEF RouterInv, Solid
<1> HIDE DEF new
<1>5. /\ DOMAIN intents' = DOMAIN intents \cup {id} /\ intents'[id] = new
      /\ \A i \in DOMAIN intents : intents'[i] = intents[i]
  BY <1>3, <1>4
<1>6. \A i \in DOMAIN intents' : i[2] < nonces'[i[1]]
  <2>1. ASSUME NEW i \in DOMAIN intents PROVE i[2] < nonces'[i[1]]
    <3>1. i \in Users \X Nat /\ i[2] < nonces[i[1]]
      BY DEF RouterInv, Solid, IntentIds
    <3>2. i[1] \in Users /\ i[2] \in Nat
      BY <3>1
    <3>3. nonces'[i[1]] \in Nat /\ nonces'[i[1]] >= nonces[i[1]] /\ nonces[i[1]] \in Nat
      BY <1>1, <1>3, <3>2
    <3> QED BY <3>1, <3>2, <3>3
  <2>2. id[2] < nonces'[id[1]]
    BY <1>1, <1>3
  <2> QED BY <1>5, <2>1, <2>2
<1>9. /\ holdings' \in [Traded -> [Holders -> Nat]]
      /\ \A u \in Traded, h \in Holders : u # in => holdings'[u][h] = holdings[u][h]
      /\ holdings'[in][Router] = holdings[in][Router] + amount
  <2>1. PICK b, c : b = holdings /\ c = holdings'
    OBVIOUS
  <2>2. /\ b \in [Traded -> [Holders -> Nat]] /\ b[in][by] >= amount
        /\ c = Move(b, in, by, Router, amount)
    BY <1>1, <1>3, <2>1
  <2>3. Moved(b, c, in, by, Router, amount)
    BY <1>1, <2>2, MoveMoves
  <2> QED BY <1>1, <2>1, <2>3 DEF Moved
<1>7. Solid'
  <2>1. id \in IntentIds
    BY <1>1 DEF IntentIds
  <2>2. nonces' \in [Users -> Nat]
    BY <1>1, <1>3
  <2>3. holdings' \in [Traded -> [Holders -> Nat]]
    BY <1>9
  <2>4. \A i \in DOMAIN intents' :
           intents'[i] \in Intent /\ intents'[i].tokenIn # intents'[i].tokenOut
    BY <1>1, <1>2, <1>5 DEF RouterInv, Solid
  <2> HIDE DEF id
  <2> QED BY <1>1, <1>3, <1>5, <1>6, <2>1, <2>2, <2>3, <2>4 DEF RouterInv, Solid
<1>8. ASSUME NEW t \in Traded
      PROVE  IsFiniteSet(Escrow(t)') /\ holdings'[t][Router] = Cardinality(Escrow(t)')
  <2> HIDE DEF id
  <2>0. IsFiniteSet(Escrow(t)) /\ holdings[t][Router] = Cardinality(Escrow(t))
    BY DEF RouterInv, Covered
  <2>1. \A i \in DOMAIN intents : intents'[i].tokenIn = intents[i].tokenIn
                                  /\ intents'[i].amountIn = intents[i].amountIn
    BY <1>5
  <2>2. CASE t # in
    <3>1. Escrow(t)' = Escrow(t)
      BY <1>2, <1>4, <1>5, <2>1, <2>2 DEF Escrow
    <3>2. holdings'[t][Router] = holdings[t][Router]
      BY <1>1, <1>9, <2>2
    <3> QED BY <2>0, <3>1, <3>2
  <2>3. CASE t = in
    <3>1. PICK S, T, U : S = Escrow(t) /\ T = {id} \X (1 .. amount) /\ U = S \cup T
      OBVIOUS
    <3>2. Escrow(t)' = U
      BY <1>2, <1>4, <1>5, <2>1, <2>3, <3>1 DEF Escrow
    <3>3. IsFiniteSet(U) /\ Cardinality(U) = Cardinality(S) + amount
      <4>1. IsFiniteSet(S) /\ S \cap T = {}
        BY <1>4, <2>0, <3>1 DEF Escrow
      <4>2. Beside(S, id, amount, U)
        BY <1>1, <3>1, <4>1 DEF Beside
      <4> QED BY <4>2, UnitsBeside
    <3>4. holdings'[t][Router] = holdings[t][Router] + amount
      BY <1>1, <1>9, <2>3
    <3> QED BY <2>0, <3>1, <3>2, <3>3, <3>4
  <2> QED BY <2>2, <2>3
<1> QED BY <1>5, <1>7, <1>8 DEF RouterInv, Covered

\* An open intent's escrow is there.
LEMMA EscrowIsThere ==
    ASSUME RouterInv, NEW id \in DOMAIN intents
    PROVE  /\ intents[id] \in Intent /\ intents[id].amountIn \in Nat
           /\ intents[id].tokenIn \in Traded
           /\ {id} \X (1 .. intents[id].amountIn) \subseteq Escrow(intents[id].tokenIn)
           /\ holdings[intents[id].tokenIn][Router] >= intents[id].amountIn
<1>1. intents[id] \in Intent /\ intents[id].amountIn \in Nat /\ intents[id].tokenIn \in Traded
  BY DEF RouterInv, Solid, Intent
<1>2. {id} \X (1 .. intents[id].amountIn) \subseteq Escrow(intents[id].tokenIn)
  BY DEF Escrow
<1>3. Cardinality(Escrow(intents[id].tokenIn)) >= intents[id].amountIn
  <2>0. PICK n \in Nat : n = intents[id].amountIn
    BY <1>1
  <2>1. PICK S : S = Escrow(intents[id].tokenIn)
    OBVIOUS
  <2>2. PICK T, R : T = {id} \X (1 .. n) /\ R = S \ T
    OBVIOUS
  <2>3. /\ T \subseteq S /\ IsFiniteSet(S) /\ IsFiniteSet(R) /\ Cardinality(R) \in Nat
    <3>1. IsFiniteSet(S) /\ T \subseteq S
      BY <1>1, <1>2, <2>0, <2>1, <2>2 DEF RouterInv, Covered
    <3>2. R \subseteq S
      BY <2>2
    <3>3. IsFiniteSet(R)
      BY <3>1, <3>2, FS_Subset
    <3> QED BY <3>1, <3>3, FS_CardinalityType
  <2>4. Cardinality(S) >= n
    <3>1. R \cap T = {} /\ S = R \cup T
      BY <2>2, <2>3
    <3>2. Beside(R, id, n, S)
      BY <2>0, <2>2, <2>3, <3>1 DEF Beside
    <3>3. Cardinality(S) = Cardinality(R) + n
      BY <3>2, UnitsBeside
    <3> QED BY <2>0, <2>3, <3>3
  <2> QED BY <2>0, <2>1, <2>4
<1>4. holdings[intents[id].tokenIn][Router] = Cardinality(Escrow(intents[id].tokenIn))
  BY <1>1 DEF RouterInv, Covered
<1> QED BY <1>1, <1>2, <1>3, <1>4

\* Taking an intent out of the book, and its escrow out of the router.
LEMMA IntentLeaves ==
    ASSUME RouterInv, NEW id \in DOMAIN intents, DeleteIntent(id),
           nonces' = nonces, executor' = executor, now' = now, pendingRole' = pendingRole,
           holdings' \in [Traded -> [Holders -> Nat]],
           \A t \in Traded : holdings'[t][Router] =
               holdings[t][Router] - IF t = intents[id].tokenIn THEN intents[id].amountIn ELSE 0
    PROVE  /\ RouterInv' /\ id \notin DOMAIN intents'
           /\ \A i \in DOMAIN intents \ {id} : i \in DOMAIN intents' /\ intents'[i] = intents[i]
<1>1. DOMAIN intents' = DOMAIN intents \ {id}
      /\ \A i \in DOMAIN intents \ {id} : intents'[i] = intents[i]
  BY DEF DeleteIntent
<1>2. Solid'
  BY <1>1 DEF RouterInv, Solid
<1>3. PICK n \in Nat, in \in Traded : n = intents[id].amountIn /\ in = intents[id].tokenIn
  BY EscrowIsThere
<1>4. ASSUME NEW t \in Traded
      PROVE  IsFiniteSet(Escrow(t)') /\ holdings'[t][Router] = Cardinality(Escrow(t)')
  <2>0. IsFiniteSet(Escrow(t)) /\ holdings[t][Router] = Cardinality(Escrow(t))
    BY DEF RouterInv, Covered
  <2>1. CASE t # in
    <3>1. Escrow(t)' = Escrow(t)
      BY <1>1, <1>3, <2>1 DEF Escrow
    <3>2. holdings'[t][Router] = holdings[t][Router]
      <4>1. holdings[t][Router] \in Nat
        BY RouterConstants DEF RouterInv, Solid
      <4> QED BY <1>3, <2>1, <4>1
    <3> QED BY <2>0, <3>1, <3>2
  <2>2. CASE t = in
    <3>1. PICK S, T, R : S = Escrow(t) /\ T = {id} \X (1 .. n) /\ R = S \ T
      OBVIOUS
    <3>2. Escrow(t)' = R
      BY <1>1, <1>3, <2>2, <3>1 DEF Escrow
    <3>3. IsFiniteSet(R) /\ Cardinality(S) = Cardinality(R) + n
      <4>1. IsFiniteSet(S) /\ T \subseteq S
        BY <1>3, <2>0, <2>2, <3>1, EscrowIsThere
      <4>2. R \cap T = {} /\ S = R \cup T /\ R \subseteq S
        BY <3>1, <4>1
      <4>3. IsFiniteSet(R)
        BY <4>1, <4>2, FS_Subset
      <4>4. Beside(R, id, n, S)
        BY <1>3, <3>1, <4>2, <4>3 DEF Beside
      <4>5. Cardinality(S) = Cardinality(R) + n
        BY <4>4, UnitsBeside
      <4> QED BY <4>3, <4>5
    <3>5. Cardinality(R) \in Nat
      BY <3>3, FS_CardinalityType
    <3>4. holdings'[t][Router] = holdings[t][Router] - n
      BY <1>3, <2>2
    <3> QED BY <2>0, <3>1, <3>2, <3>3, <3>4, <3>5
  <2> QED BY <2>1, <2>2
<1> QED BY <1>1, <1>2, <1>4 DEF RouterInv, Covered

\* What must hold of an intent that leaves in a step; the terms of the others stay.
Settled(id) ==
    /\ holdings'[intents[id].tokenIn][Router] - holdings[intents[id].tokenIn][Router]
          = - intents[id].amountIn
    /\ \/ /\ holdings'[intents[id].tokenIn][intents[id].user]
                - holdings[intents[id].tokenIn][intents[id].user] = intents[id].amountIn
          /\ holdings'[intents[id].tokenOut][intents[id].user]
                - holdings[intents[id].tokenOut][intents[id].user] = 0
       \/ /\ now <= intents[id].deadline
          /\ holdings'[intents[id].tokenOut][intents[id].user]
                - holdings[intents[id].tokenOut][intents[id].user] >= intents[id].minAmountOut
          /\ holdings'[intents[id].tokenIn][executor]
                - holdings[intents[id].tokenIn][executor] = intents[id].amountIn
OnTerms ==
    \A id \in DOMAIN intents :
        IF id \in DOMAIN intents' THEN intents'[id] = intents[id] ELSE Settled(id)

LEMMA CancelStep ==
    ASSUME RouterInv, NEW id \in DOMAIN intents, NEW by \in Users, CancelIntent(by, id)
    PROVE  RouterInv' /\ OnTerms
<1>1. PICK n \in Nat, in \in Traded : n = intents[id].amountIn /\ in = intents[id].tokenIn
  BY EscrowIsThere
<1>2. /\ intents[id].user = by /\ holdings[in][Router] >= n /\ DeleteIntent(id)
      /\ holdings' = Move(holdings, in, Router, by, n)
      /\ nonces' = nonces /\ executor' = executor /\ now' = now /\ pendingRole' = pendingRole
  BY <1>1 DEF CancelIntent, Refundable, rotation
<1>3. /\ holdings \in [Traded -> [Holders -> Nat]] /\ Router \in Holders /\ by \in Holders
      /\ by # Router
  BY RouterConstants DEF RouterInv, Solid
<1>4. /\ holdings' \in [Traded -> [Holders -> Nat]]
      /\ \A u \in Traded, h \in Holders : u # in => holdings'[u][h] = holdings[u][h]
      /\ holdings'[in][Router] = holdings[in][Router] - n
      /\ holdings'[in][by] = holdings[in][by] + n
  <2>1. PICK b, c : b = holdings /\ c = holdings'
    OBVIOUS
  <2>2. Moved(b, c, in, Router, by, n)
    BY <1>1, <1>2, <1>3, <2>1, MoveMoves
  <2> QED BY <1>3, <2>1, <2>2 DEF Moved
<1>5. \A t \in Traded : holdings'[t][Router] =
         holdings[t][Router] - IF t = intents[id].tokenIn THEN intents[id].amountIn ELSE 0
  BY <1>1, <1>3, <1>4
<1>6. /\ RouterInv' /\ id \notin DOMAIN intents'
      /\ \A i \in DOMAIN intents \ {id} : i \in DOMAIN intents' /\ intents'[i] = intents[i]
  BY <1>2, <1>4, <1>5, IntentLeaves
<1>7. intents[id].tokenOut \in Traded /\ intents[id].tokenOut # in
  BY <1>1 DEF RouterInv, Solid, Intent
<1>8. Settled(id)
  <2>1. holdings'[in][Router] - holdings[in][Router] = - n
    BY <1>3, <1>4
  <2>2. holdings'[in][by] - holdings[in][by] = n
    BY <1>3, <1>4
  <2>3. holdings'[intents[id].tokenOut][by] - holdings[intents[id].tokenOut][by] = 0
    BY <1>3, <1>4, <1>7
  <2> QED BY <1>1, <1>2, <2>1, <2>2, <2>3 DEF Settled
<1> QED BY <1>6, <1>8 DEF OnTerms

LEMMA ExecuteStep ==
    ASSUME RouterInv, NEW id \in DOMAIN intents, NEW by \in Addresses,
           NEW output \in SwapAmounts, ExecuteIntent(by, id, output)
    PROVE  RouterInv' /\ OnTerms
<1>1. PICK n \in Nat, in \in Traded : n = intents[id].amountIn /\ in = intents[id].tokenIn
  BY EscrowIsThere
<1>2. PICK out \in Traded, user \in Users : out = intents[id].tokenOut /\ user = intents[id].user
  BY EscrowIsThere DEF Intent
<1>3. PICK paid : paid = Move(holdings, out, by, user, output)
  OBVIOUS
<1>4. /\ by = executor /\ now <= intents[id].deadline /\ output >= intents[id].minAmountOut
      /\ holdings[out][by] >= output /\ paid[in][Router] >= n /\ DeleteIntent(id)
      /\ holdings' = Move(paid, in, Router, by, n)
      /\ nonces' = nonces /\ executor' = executor /\ now' = now /\ pendingRole' = pendingRole
  BY <1>1, <1>2, <1>3 DEF ExecuteIntent, AcceptsFill, rotation
<1>5. /\ holdings \in [Traded -> [Holders -> Nat]] /\ Router \in Holders /\ by \in Holders
      /\ user \in Holders /\ Router \notin {by, user} /\ output \in Nat /\ in # out
  BY <1>1, <1>2, RouterConstants DEF RouterInv, Solid
<1>6. /\ paid \in [Traded -> [Holders -> Nat]]
      /\ \A h \in Holders : paid[in][h] = holdings[in][h]
      /\ \A h \in Holders : h \notin {by, user} => paid[out][h] = holdings[out][h]
      /\ \A u \in Traded, h \in Holders : u # out => paid[u][h] = holdings[u][h]
      /\ by # user => paid[out][user] = holdings[out][user] + output
      /\ by = user => paid[out][user] = holdings[out][user]
  <2>1. PICK b : b = holdings
    OBVIOUS
  <2>2. Moved(b, paid, out, by, user, output)
    BY <1>2, <1>3, <1>4, <1>5, <2>1, MoveMoves
  <2> QED BY <1>1, <1>2, <1>5, <2>1, <2>2 DEF Moved
<1>7. /\ holdings' \in [Traded -> [Holders -> Nat]]
      /\ \A u \in Traded, h \in Holders : u # in => holdings'[u][h] = paid[u][h]
      /\ holdings'[in][Router] = paid[in][Router] - n
      /\ holdings'[in][by] = paid[in][by] + n
  <2>1. PICK c : c = holdings'
    OBVIOUS
  <2>2. Moved(paid, c, in, Router, by, n)
    BY <1>1, <1>4, <1>5, <1>6, <2>1, MoveMoves
  <2> QED BY <1>1, <1>5, <2>1, <2>2 DEF Moved
<1>8. /\ holdings'[in][Router] = holdings[in][Router] - n
      /\ holdings'[in][by] = holdings[in][by] + n
      /\ holdings'[out][user] = paid[out][user]
      /\ \A t \in Traded : t # in => holdings'[t][Router] = holdings[t][Router]
  BY <1>5, <1>6, <1>7
<1>9. \A t \in Traded : holdings'[t][Router] =
         holdings[t][Router] - IF t = intents[id].tokenIn THEN intents[id].amountIn ELSE 0
  BY <1>1, <1>5, <1>8
<1>10. /\ RouterInv' /\ id \notin DOMAIN intents'
       /\ \A i \in DOMAIN intents \ {id} : i \in DOMAIN intents' /\ intents'[i] = intents[i]
  BY <1>4, <1>7, <1>9, IntentLeaves
<1>11. Settled(id)
  <2>0. holdings[in][Router] \in Nat /\ holdings[in][by] \in Nat /\ holdings[out][user] \in Nat
    BY <1>5
  <2>1. holdings'[in][Router] - holdings[in][Router] = - n
        /\ holdings'[in][by] - holdings[in][by] = n
    BY <1>8, <2>0
  <2>2. CASE by = user
    <3>1. holdings'[out][user] - holdings[out][user] = 0
      BY <1>6, <1>8, <2>0, <2>2
    <3> QED BY <1>1, <1>2, <1>4, <2>1, <2>2, <3>1 DEF Settled
  <2>3. CASE by # user
    <3>1. holdings'[out][user] - holdings[out][user] = output
      BY <1>5, <1>6, <1>8, <2>0, <2>3
    <3> QED BY <1>1, <1>2, <1>4, <2>1, <3>1 DEF Settled
  <2> QED BY <2>2, <2>3
<1> QED BY <1>10, <1>11 DEF OnTerms

\* The moves that only pass tokens by the router.
LEMMA PassingStep ==
    ASSUME RouterInv, intents' = intents, nonces' = nonces, executor' = executor,
           now' = now, pendingRole' = pendingRole,
           holdings' \in [Traded -> [Holders -> Nat]],
           \A t \in Traded : holdings'[t][Router] = holdings[t][Router]
    PROVE  RouterInv' /\ OnTerms
<1>1. Solid'
  BY DEF RouterInv, Solid
<1> QED BY <1>1, BookStays DEF RouterInv, OnTerms

LEMMA UniswapStep ==
    ASSUME RouterInv, NEW by \in Users, NEW in \in Traded, NEW out \in Traded, in # out,
           NEW amount \in SwapAmounts, NEW min \in SwapAmounts, NEW received \in SwapAmounts,
           SwapViaUniswapV3(by, in, out, amount, min, received)
    PROVE  RouterInv' /\ OnTerms
<1>1. PICK pulled : pulled = Move(holdings, in, by, Router, amount)
  OBVIOUS
<1>2. PICK sold : sold = Move(pulled, in, Router, Uniswap, amount)
  OBVIOUS
<1>3. /\ holdings[in][by] >= amount /\ sold[out][Uniswap] >= received
      /\ holdings' = Move(sold, out, Uniswap, by, received)
      /\ intents' = intents /\ nonces' = nonces /\ executor' = executor /\ now' = now
      /\ pendingRole' = pendingRole
  BY <1>1, <1>2 DEF SwapViaUniswapV3, rotation
<1>4. /\ holdings \in [Traded -> [Holders -> Nat]] /\ Router \in Holders /\ by \in Holders
      /\ Uniswap \in Holders /\ Router \notin {by, Uniswap}
      /\ amount \in Nat /\ received \in Nat
  BY RouterConstants DEF RouterInv, Solid
<1>5. /\ pulled \in [Traded -> [Holders -> Nat]]
      /\ pulled[in][Router] = holdings[in][Router] + amount
      /\ \A u \in Traded : u # in => pulled[u][Router] = holdings[u][Router]
  <2>1. PICK b : b = holdings
    OBVIOUS
  <2>2. Moved(b, pulled, in, by, Router, amount)
    BY <1>1, <1>3, <1>4, <2>1, MoveMoves
  <2> QED BY <1>4, <2>1, <2>2 DEF Moved
<1>6. pulled[in][Router] >= amount
  BY <1>4, <1>5
<1>7. /\ sold \in [Traded -> [Holders -> Nat]]
      /\ sold[in][Router] = pulled[in][Router] - amount
      /\ \A u \in Traded : u # in => sold[u][Router] = pulled[u][Router]
  <2>1. Moved(pulled, sold, in, Router, Uniswap, amount)
    BY <1>2, <1>4, <1>5, <1>6, MoveMoves
  <2> QED BY <1>4, <2>1 DEF Moved
<1>8. /\ holdings' \in [Traded -> [Holders -> Nat]]
      /\ \A u \in Traded : holdings'[u][Router] = sold[u][Router]
  <2>1. PICK c : c = holdings'
    OBVIOUS
  <2>2. Moved(sold, c, out, Uniswap, by, received)
    BY <1>3, <1>4, <1>7, <2>1, MoveMoves
  <2>3. c \in [Traded -> [Holders -> Nat]]
        /\ \A u \in Traded : c[u][Router] = sold[u][Router]
    BY <1>4, <2>2 DEF Moved
  <2> QED BY <2>1, <2>3
<1>9. \A u \in Traded : holdings'[u][Router] = holdings[u][Router]
  <2>1. TAKE u \in Traded
  <2>2. holdings'[u][Router] = sold[u][Router]
    BY <1>8
  <2>3. CASE u = in
    BY <1>4, <1>5, <1>7, <2>2, <2>3
  <2>4. CASE u # in
    BY <1>5, <1>7, <2>2, <2>4
  <2> QED BY <2>3, <2>4
<1> QED BY <1>3, <1>8, <1>9, PassingStep

LEMMA TransferStep ==
    ASSUME RouterInv, NEW from \in Addresses, NEW to \in Addresses, NEW t \in Traded,
           NEW amount \in SwapAmounts, ExecutorTransfer(from, to, t, amount)
    PROVE  RouterInv' /\ OnTerms
<1>1. /\ holdings[t][from] >= amount /\ holdings' = Move(holdings, t, from, to, amount)
      /\ intents' = intents /\ nonces' = nonces /\ executor' = executor /\ now' = now
      /\ pendingRole' = pendingRole
  BY DEF ExecutorTransfer, rotation
<1>2. /\ holdings \in [Traded -> [Holders -> Nat]] /\ from \in Holders /\ to \in Holders
      /\ amount \in Nat /\ Router \in Holders /\ Router \notin {from, to}
  BY RouterConstants DEF RouterInv, Solid
<1>3. /\ holdings' \in [Traded -> [Holders -> Nat]]
      /\ \A u \in Traded : holdings'[u][Router] = holdings[u][Router]
  <2>1. PICK b, c : b = holdings /\ c = holdings'
    OBVIOUS
  <2>2. Moved(b, c, t, from, to, amount)
    BY <1>1, <1>2, <2>1, MoveMoves
  <2>3. c \in [Traded -> [Holders -> Nat]]
        /\ \A u \in Traded : c[u][Router] = b[u][Router]
    BY <1>2, <2>2 DEF Moved
  <2> QED BY <2>1, <2>3
<1> QED BY <1>1, <1>3, PassingStep

LEMMA RouterStep ==
    ASSUME RouterInv, [RouterNext]_allRouterVars
    PROVE  RouterInv' /\ OnTerms
<1>1. ASSUME NEW a \in Addresses, ProposeExecutor(a)
      PROVE  RouterInv' /\ OnTerms
  <2>1. /\ pendingRole' = a /\ intents' = intents /\ nonces' = nonces
        /\ executor' = executor /\ holdings' = holdings /\ now' = now
    BY <1>1 DEF ProposeExecutor, ProposeRole, routerVars
  <2>2. Solid'
    BY <2>1 DEF RouterInv, Solid
  <2> QED BY <2>1, <2>2, BookStays DEF RouterInv, OnTerms
<1>2. CASE AcceptExecutor
  <2>1. /\ pendingRole # NoAddress /\ pendingRole' = NoAddress /\ executor' = pendingRole
        /\ intents' = intents /\ nonces' = nonces /\ holdings' = holdings /\ now' = now
    BY <1>2 DEF AcceptExecutor, AcceptRole
  <2>2. Solid'
    BY <2>1 DEF RouterInv, Solid
  <2> QED BY <2>1, <2>2, BookStays DEF RouterInv, OnTerms
<1>3. CASE RouterTick \/ UNCHANGED allRouterVars
  <2>1. /\ intents' = intents /\ nonces' = nonces /\ holdings' = holdings
        /\ executor' = executor /\ pendingRole' = pendingRole
        /\ now' = now \/ now' = now + 1
    BY <1>3 DEF RouterTick, allRouterVars, routerVars, rotation
  <2>2. Solid'
    BY <2>1 DEF RouterInv, Solid
  <2> QED BY <2>1, <2>2, BookStays DEF RouterInv, OnTerms
<1>4. ASSUME NEW on, PauseRouter(on)
      PROVE  RouterInv' /\ OnTerms
  <2>1. /\ intents' = intents /\ nonces' = nonces /\ holdings' = holdings
        /\ executor' = executor /\ pendingRole' = pendingRole /\ now' = now
    BY <1>4 DEF PauseRouter, rotation
  <2> QED BY <2>1, PassingStep DEF RouterInv, Solid
<1>5. ASSUME NEW by \in Users, NEW in \in Traded, NEW out \in Traded,
             NEW amount \in SwapAmounts, NEW min \in SwapAmounts,
             NEW offset \in MIN_DEADLINE_OFFSET .. MAX_DEADLINE_OFFSET,
             SubmitSwapIntent(by, in, out, amount, min, offset)
      PROVE  RouterInv' /\ OnTerms
  BY <1>5, SubmitStep DEF OnTerms
<1> QED BY <1>1, <1>2, <1>3, <1>4, <1>5, CancelStep, ExecuteStep, UniswapStep, TransferStep
        DEF RouterNext

\* The router holds of every token what the open intents sell of it, and whoever
\* submitted one can have it back, whatever the order of swaps, fills,
\* cancellations and changes of the executor (SwapRouter.sol:121 to 225).
THEOREM EscrowIsAlwaysKept == RouterSpec => []EscrowIsKept
<1>1. RouterInv => EscrowIsKept
  BY EscrowIsThere DEF RouterInv, Covered, EscrowIsKept, Refundable
<1> QED BY RouterStart, RouterStep, <1>1, PTL DEF RouterSpec

\* An intent leaves the book against its escrow, given back or filled in time and
\* for at least the minimum; its terms never change (SwapRouter.sol:121 to 225).
THEOREM IntentsAlwaysSettle == RouterSpec => IntentsSettleOnTheirTerms
<1>1. OnTerms =>
        \A id \in DOMAIN intents :
          LET i      == intents[id]
              gain(t, h) == holdings'[t][h] - holdings[t][h]
          IN  IF id \in DOMAIN intents'
              THEN intents'[id] = i
              ELSE /\ gain(i.tokenIn, Router) = - i.amountIn
                   /\ \/ /\ gain(i.tokenIn, i.user) = i.amountIn
                         /\ gain(i.tokenOut, i.user) = 0
                      \/ /\ now <= i.deadline
                         /\ gain(i.tokenOut, i.user) >= i.minAmountOut
                         /\ gain(i.tokenIn, executor) = i.amountIn
  BY DEF OnTerms, Settled
<1> QED BY RouterStart, RouterStep, <1>1, PTL DEF RouterSpec, IntentsSettleOnTheirTerms

-----------------------------------------------------------------------------
(* Rounds of a pipeline.                                                   *)

\* A remainder is the only one there is.
LEMMA RemaindersAgree ==
    ASSUME NEW m \in Nat \ {0}, NEW d \in Int, NEW q \in Int,
           NEW e \in 0 .. m - 1, NEW r \in 0 .. m - 1, m * d + e = m * q + r
    PROVE  e = r
<1>1. m * (d - q) = m * d - m * q
  OBVIOUS
<1>2. m * (d - q) = r - e
  BY <1>1
<1>3. CASE d - q >= 1
  <2>1. m * (d - q) >= m
    BY <1>3
  <2> QED BY <1>2, <2>1
<1>4. CASE d - q <= -1
  <2>1. m * (d - q) <= - m
    BY <1>4
  <2> QED BY <1>2, <2>1
<1>5. CASE d = q
  BY <1>5
<1> QED BY <1>3, <1>4, <1>5

Divided(a, m, q, r) ==
    m \in Nat \ {0} /\ q \in Int /\ r \in 0 .. m - 1 /\ a \in Int /\ a = m * q + r

LEMMA RemainderIsThere ==
    ASSUME NEW m \in Nat \ {0}, NEW a \in Int
    PROVE  /\ Divided(a, m, a \div m, a % m)
           /\ a \div m \in Int /\ a % m \in 0 .. m - 1
BY DEF Divided

LEMMA RemainderIsUnique ==
    ASSUME NEW a, NEW m, NEW q, NEW r, Divided(a, m, q, r)
    PROVE  a % m = r
<1>1. m \in Nat \ {0} /\ q \in Int /\ r \in 0 .. m - 1 /\ a \in Int
  BY DEF Divided
<1>2. PICK d, e : d = a \div m /\ e = a % m
  OBVIOUS
<1>3. Divided(a, m, d, e) /\ d \in Int /\ e \in 0 .. m - 1
  BY <1>1, <1>2, RemainderIsThere
<1>4. m * d + e = m * q + r
  BY <1>3 DEF Divided
<1>5. e = r
  BY <1>1, <1>3, <1>4, RemaindersAgree
<1> QED BY <1>2, <1>5, Zenon

\* What follows in a round that has not ended.
LEMMA RoundContinues ==
    ASSUME NEW m \in Nat \ {0}, NEW a \in Nat, NEW j \in Nat, j + (a % m) < m
    PROVE  (a + j) % m = j + (a % m)
<1>1. PICK q, r : q = a \div m /\ r = a % m
  OBVIOUS
<1>2. Divided(a, m, q, r) /\ r \in Nat /\ j + r < m
  <2>1. a \in Int
    OBVIOUS
  <2>2. Divided(a, m, q, r) /\ r \in 0 .. m - 1
    BY <1>1, <2>1, RemainderIsThere, Zenon
  <2>3. j + r < m
    BY <1>1, Zenon
  <2> QED BY <2>2, <2>3
<1>3. Divided(a + j, m, q, j + r)
  BY <1>2 DEF Divided
<1>4. (a + j) % m = j + r
  BY <1>3, RemainderIsUnique, Zenon
<1> QED BY <1>1, <1>4, Zenon

LEMMA RoundEnds ==
    ASSUME NEW m \in Nat \ {0}, NEW a \in Nat, NEW j \in Nat, j + (a % m) = m
    PROVE  (a + j) % m = 0
<1>1. PICK q, r : q = a \div m /\ r = a % m
  OBVIOUS
<1>2. Divided(a, m, q, r) /\ q \in Int /\ r \in Nat /\ j + r = m
  <2>1. a \in Int
    OBVIOUS
  <2>2. Divided(a, m, q, r) /\ q \in Int /\ r \in 0 .. m - 1
    BY <1>1, <2>1, RemainderIsThere, Zenon
  <2>3. j + r = m
    BY <1>1, Zenon
  <2> QED BY <2>2, <2>3
<1>3. Divided(a + j, m, q + 1, 0)
  <2>1. m * (q + 1) = m * q + m
    BY <1>2
  <2>2. a + j = m * (q + 1) + 0
    BY <1>2, <2>1 DEF Divided
  <2> QED BY <1>2, <2>2 DEF Divided
<1> QED BY <1>3, RemainderIsUnique, Zenon

\* What one checkpoint, its log and the arrays given under it have to do with one
\* another: s is where the next call starts.
InOrder(s, log, arrays) ==
    /\ s \in Nat /\ log \in Seq(Nat) /\ arrays \subseteq Pipelines
    /\ \A p \in arrays : Len(p) \in Nat \ {0}
    /\ arrays = {} => log = <<>>
    /\ s # 0 => Len(log) # 0 /\ s = log[Len(log)]
    /\ \A p : arrays = {p} =>
          /\ s = Len(log) % Len(p)
          /\ \A i \in DOMAIN log : log[i] = ((i - 1) % Len(p)) + 1
    /\ \A i \in DOMAIN log : log[i] \in {1, IF i = 1 THEN 1 ELSE log[i - 1] + 1}

\* A log with the positions s + 1 to stop behind it.
Grown(log, s, stop, new) ==
    /\ new \in Seq(Nat) /\ Len(new) = Len(log) + (stop - s)
    /\ DOMAIN new = 1 .. Len(log) + (stop - s)
    /\ \A i \in 1 .. Len(log) : new[i] = log[i]
    /\ \A i \in 1 .. Len(log) + (stop - s) : i > Len(log) => new[i] = s + (i - Len(log))

LEMMA LogGrows ==
    ASSUME NEW log \in Seq(Nat), NEW s \in Nat, NEW stop \in Nat, s <= stop,
           NEW new, new = log \o [i \in 1 .. stop - s |-> s + i]
    PROVE  Grown(log, s, stop, new)
<1> DEFINE more == [i \in 1 .. stop - s |-> s + i]
<1>1. more \in Seq(Nat) /\ Len(more) = stop - s /\ \A i \in 1 .. stop - s : more[i] = s + i
  OBVIOUS
<1> HIDE DEF more
<1>2. /\ log \o more \in Seq(Nat) /\ Len(log \o more) = Len(log) + Len(more)
      /\ \A i \in 1 .. Len(log) + Len(more) :
            (log \o more)[i] = IF i <= Len(log) THEN log[i] ELSE more[i - Len(log)]
  BY <1>1, ConcatProperties
<1>3. new = log \o more
  BY DEF more
<1> QED BY <1>1, <1>2, <1>3 DEF Grown

\* A call that stops after stop actions, of an array that was or was not given before.
LEMMA CallKeepsOrder ==
    ASSUME NEW s, NEW log, NEW arrays, InOrder(s, log, arrays),
           NEW p \in Pipelines, NEW m \in Nat \ {0}, Len(p) = m,
           NEW stop \in Nat, s <= stop, stop <= m,
           NEW new, Grown(log, s, stop, new),
           NEW t, t = IF stop < m THEN stop ELSE 0
    PROVE  InOrder(t, new, arrays \cup {p})
<1> DEFINE n == Len(log)
<1>1. s \in Nat /\ log \in Seq(Nat) /\ n \in Nat /\ DOMAIN log = 1 .. n
  BY DEF InOrder
<1>2. /\ new \in Seq(Nat) /\ Len(new) = n + (stop - s) /\ DOMAIN new = 1 .. n + (stop - s)
      /\ \A i \in 1 .. n : new[i] = log[i]
      /\ \A i \in 1 .. n + (stop - s) : i > n => new[i] = s + (i - n)
  BY <1>1 DEF Grown
<1> HIDE DEF n
<1>3. arrays \cup {p} # {} /\ arrays \cup {p} \subseteq Pipelines
      /\ \A q \in arrays \cup {p} : Len(q) \in Nat \ {0}
  BY DEF InOrder
<1>4. t # 0 => Len(new) # 0 /\ t = new[Len(new)]
  <2>1. SUFFICES ASSUME t # 0 PROVE Len(new) # 0 /\ stop = new[Len(new)]
    OBVIOUS
  <2>2. CASE stop = s
    <3>1. n # 0 /\ s = log[n]
      BY <2>1, <2>2 DEF InOrder, n
    <3>2. Len(new) = n /\ n \in 1 .. n
      BY <1>1, <1>2, <2>2, <3>1
    <3>3. new[n] = log[n]
      BY <1>2, <3>2
    <3> QED BY <2>2, <3>1, <3>2, <3>3
  <2>3. CASE stop > s
    <3>1. n + (stop - s) \in 1 .. n + (stop - s) /\ n + (stop - s) > n
      BY <1>1, <2>3
    <3>2. new[n + (stop - s)] = s + ((n + (stop - s)) - n)
      BY <1>2, <3>1
    <3> QED BY <1>1, <1>2, <2>1, <2>3, <3>1, <3>2
  <2> QED BY <1>1, <2>2, <2>3
<1>5. ASSUME NEW i \in DOMAIN new
      PROVE  new[i] \in {1, IF i = 1 THEN 1 ELSE new[i - 1] + 1}
  <2>1. CASE i \in 1 .. n
    <3>1. log[i] \in {1, IF i = 1 THEN 1 ELSE log[i - 1] + 1}
      BY <1>1, <2>1 DEF InOrder
    <3> QED BY <1>1, <1>2, <2>1, <3>1
  <2>2. CASE i = n + 1
    <3>1. new[i] = s + 1
      BY <1>1, <1>2, <1>5, <2>2
    <3>2. CASE s = 0
      BY <3>1, <3>2
    <3>3. CASE s # 0
      <4>1. n # 0 /\ s = log[n]
        BY <3>3 DEF InOrder, n
      <4>2. i # 1 /\ new[i - 1] = log[n]
        BY <1>1, <1>2, <2>2, <4>1
      <4> QED BY <3>1, <4>1, <4>2
    <3> QED BY <3>2, <3>3
  <2>3. CASE i > n + 1
    <3>0. PICK k \in Nat : k = n + (stop - s)
      BY <1>1
    <3>3. i \in 1 .. k
      BY <1>2, <1>5, <3>0
    <3>4. i - 1 \in 1 .. k /\ i > n /\ i - 1 > n
      BY <1>1, <2>3, <3>3
    <3>1. i \in 1 .. n + (stop - s) /\ i - 1 \in 1 .. n + (stop - s) /\ i > n /\ i - 1 > n
      BY <3>0, <3>3, <3>4
    <3>2. new[i] = s + (i - n) /\ new[i - 1] = s + ((i - 1) - n)
      BY <1>2, <3>1
    <3> QED BY <1>1, <2>3, <3>1, <3>2
  <2> QED BY <1>1, <1>2, <1>5, <2>1, <2>2, <2>3
<1>6. ASSUME NEW q, arrays \cup {p} = {q}
      PROVE  /\ t = Len(new) % Len(q)
             /\ \A i \in DOMAIN new : new[i] = ((i - 1) % Len(q)) + 1
  <2>1. q = p /\ (arrays = {} \/ arrays = {p})
    BY <1>6
  <2>2. /\ s = n % m
        /\ \A i \in 1 .. n : log[i] = ((i - 1) % m) + 1
    <3>1. CASE arrays = {p}
      BY <1>1, <3>1 DEF InOrder, n
    <3>2. CASE arrays = {}
      <4>1. n = 0 /\ s = 0
        BY <1>1, <3>2 DEF InOrder, n
      <4>2. 0 % m = 0
        BY RoundContinues
      <4> QED BY <4>1, <4>2
    <3> QED BY <2>1, <3>1, <3>2
  <2>3. ASSUME NEW i \in 1 .. n + (stop - s) PROVE new[i] = ((i - 1) % m) + 1
    <3>1. CASE i \in 1 .. n
      BY <1>2, <2>2, <3>1
    <3>2. CASE i > n
      <4>1. PICK j \in Nat : j = i - 1 - n
        BY <1>1, <3>2
      <4>2. j + (n % m) < m /\ i - 1 = n + j
        BY <1>1, <2>2, <4>1
      <4>3. (n + j) % m = j + (n % m)
        BY <1>1, <4>2, RoundContinues
      <4>4. new[i] = s + (i - n)
        BY <1>2, <2>3, <3>2
      <4>5. (i - 1) % m = j + s
        BY <2>2, <4>2, <4>3
      <4>6. i \in Int /\ s + (i - n) = (j + s) + 1
        BY <1>1, <2>3, <4>1
      <4> QED BY <4>4, <4>5, <4>6
    <3> QED BY <1>1, <3>1, <3>2
  <2>4. t = (n + (stop - s)) % m
    <3>1. PICK j \in Nat : j = stop - s
      BY <1>1
    <3>2. CASE stop < m
      <4>1. j + (n % m) < m
        BY <1>1, <2>2, <3>1, <3>2
      <4>2. (n + j) % m = j + (n % m)
        BY <1>1, <4>1, RoundContinues
      <4> QED BY <1>1, <2>2, <3>1, <3>2, <4>2
    <3>3. CASE stop = m
      <4>1. j + (n % m) = m
        BY <1>1, <2>2, <3>1, <3>3
      <4>2. (n + j) % m = 0
        BY <1>1, <4>1, RoundEnds
      <4> QED BY <3>1, <3>3, <4>2
    <3> QED BY <3>2, <3>3
  <2> QED BY <1>2, <2>1, <2>3, <2>4
<1>7. t \in Nat
  OBVIOUS
<1> QED BY <1>2, <1>3, <1>4, <1>5, <1>6, <1>7 DEF InOrder

ExecInv ==
    /\ checkpoints \in [Keys -> [actionIndex : Nat, completed : BOOLEAN]]
    /\ DOMAIN performed = Keys /\ DOMAIN given = Keys
    /\ \A k \in Keys : InOrder(StartIdx(checkpoints[k]), performed[k], given[k])

\* The state a checkpoint begins in, and begins in again after a reset.
LEMMA NothingPerformed == InOrder(StartIdx(NoCheckpoint), <<>>, {})
<1>1. StartIdx(NoCheckpoint) = 0
  BY DEF StartIdx, NoCheckpoint
<1>2. <<>> \in Seq(Nat) /\ Len(<<>>) = 0 /\ DOMAIN <<>> = {}
  OBVIOUS
<1>3. \A p : {} # {p}
  OBVIOUS
<1> QED BY <1>1, <1>2, <1>3 DEF InOrder

LEMMA PipelineStep ==
    ASSUME ExecInv, NEW id \in StrategyIds, NEW u \in Callers, NEW p \in Pipelines,
           ExecutePipeline(id, u, p)
    PROVE  ExecInv'
<1>1. PICK k \in Keys : k = <<id, u>>
  BY DEF Keys
<1>2. PICK s, log, arrays :
         s \in Nat /\ s = StartIdx(checkpoints[k]) /\ log = performed[k] /\ arrays = given[k]
  BY DEF ExecInv, InOrder
<1>3. PICK stop \in s .. Len(p) :
         /\ checkpoints' = [checkpoints EXCEPT ![k] =
               IF stop < Len(p) THEN StoppedAt(stop)
               ELSE [actionIndex |-> Len(p), completed |-> TRUE]]
         /\ performed' = [performed EXCEPT ![k] = log \o [i \in 1 .. stop - s |-> s + i]]
         /\ given' = [given EXCEPT ![k] = arrays \cup {p}]
  BY <1>1, <1>2 DEF ExecutePipeline
<1>4. PICK m \in Nat \ {0} : m = Len(p)
  <2>1. p \in Seq(STRING) /\ p # <<>>
    BY ExecutorAssumption DEF ExecutePipeline
  <2> QED BY <2>1
<1>5. PICK new, t : /\ new = log \o [i \in 1 .. stop - s |-> s + i]
                    /\ t = IF stop < m THEN stop ELSE 0
  OBVIOUS
<1>6. InOrder(t, new, arrays \cup {p})
  <2>1. InOrder(s, log, arrays)
    BY <1>2 DEF ExecInv
  <2>2. stop \in Nat /\ s <= stop /\ stop <= m /\ Len(p) = m
    BY <1>2, <1>3, <1>4
  <2>3. Grown(log, s, stop, new)
    BY <1>5, <2>1, <2>2, LogGrows DEF InOrder
  <2> QED BY <1>5, <2>1, <2>2, <2>3, CallKeepsOrder
<1>7. PICK cp \in [actionIndex : Nat, completed : BOOLEAN] :
         /\ cp = IF stop < m THEN StoppedAt(stop) ELSE [actionIndex |-> m, completed |-> TRUE]
         /\ StartIdx(cp) = t
  <2>1. CASE stop < m
    <3>1. /\ StoppedAt(stop) \in [actionIndex : Nat, completed : BOOLEAN]
          /\ StartIdx(StoppedAt(stop)) = stop
      BY <1>2, <1>3, <1>4 DEF StoppedAt, StartIdx
    <3> QED BY <1>5, <2>1, <3>1
  <2>2. CASE ~(stop < m)
    <3>1. /\ [actionIndex |-> m, completed |-> TRUE] \in [actionIndex : Nat, completed : BOOLEAN]
          /\ StartIdx([actionIndex |-> m, completed |-> TRUE]) = 0
      BY DEF StartIdx
    <3> QED BY <1>5, <2>2, <3>1
  <2> QED BY <2>1, <2>2
<1>8. /\ checkpoints' = [checkpoints EXCEPT ![k] = cp]
      /\ performed' = [performed EXCEPT ![k] = new]
      /\ given' = [given EXCEPT ![k] = arrays \cup {p}]
  BY <1>3, <1>4, <1>5, <1>7
<1>9. ASSUME NEW l \in Keys
      PROVE  InOrder(StartIdx(checkpoints'[l]), performed'[l], given'[l])
  <2>1. CASE l = k
    <3>1. checkpoints'[l] = cp /\ performed'[l] = new /\ given'[l] = arrays \cup {p}
      BY <1>8, <2>1 DEF ExecInv
    <3> QED BY <1>6, <1>7, <3>1
  <2>2. CASE l # k
    <3>1. /\ checkpoints'[l] = checkpoints[l] /\ performed'[l] = performed[l]
          /\ given'[l] = given[l]
      BY <1>8, <2>2 DEF ExecInv
    <3> QED BY <3>1 DEF ExecInv
  <2> QED BY <2>1, <2>2
<1> QED BY <1>7, <1>8, <1>9 DEF ExecInv

\* Whoever resumes with the same array performs each of its actions once a round
\* and in its order; nobody performs a position twice in a round or out of its turn
\* (StrategyExecutor.sol:71 and 77), for all arrays and all interruptions.
THEOREM PipelinesAlwaysRunInOrder == ExecSpec => []PipelinesRunInOrder
<1>1. ExecInit => ExecInv
  <2>1. NoCheckpoint \in [actionIndex : Nat, completed : BOOLEAN]
    BY DEF NoCheckpoint
  <2> QED BY <2>1, NothingPerformed DEF ExecInit, ExecInv
<1>2. ExecInv /\ [ExecNext]_execVars => ExecInv'
  <2>1. SUFFICES ASSUME ExecInv, [ExecNext]_execVars PROVE ExecInv'
    OBVIOUS
  <2>2. ASSUME NEW id \in StrategyIds, NEW u \in Callers, ResetCheckpoint(id, u)
        PROVE  ExecInv'
    <3>1. PICK k \in Keys : k = <<id, u>>
      BY DEF Keys
    <3>2. /\ checkpoints' = [checkpoints EXCEPT ![k] = NoCheckpoint]
          /\ performed' = [performed EXCEPT ![k] = <<>>]
          /\ given' = [given EXCEPT ![k] = {}]
          /\ NoCheckpoint \in [actionIndex : Nat, completed : BOOLEAN]
      BY <2>2, <3>1 DEF ResetCheckpoint, NoCheckpoint
    <3>3. ASSUME NEW l \in Keys
          PROVE  InOrder(StartIdx(checkpoints'[l]), performed'[l], given'[l])
      <4>1. CASE l = k
        <5>1. checkpoints'[l] = NoCheckpoint /\ performed'[l] = <<>> /\ given'[l] = {}
          BY <2>1, <3>2, <4>1 DEF ExecInv
        <5> QED BY <5>1, NothingPerformed
      <4>2. CASE l # k
        <5>1. /\ checkpoints'[l] = checkpoints[l] /\ performed'[l] = performed[l]
              /\ given'[l] = given[l]
          BY <2>1, <3>2, <4>2 DEF ExecInv
        <5> QED BY <2>1, <5>1 DEF ExecInv
      <4> QED BY <4>1, <4>2
    <3> QED BY <2>1, <3>2, <3>3 DEF ExecInv
  <2>3. ASSUME UNCHANGED <<checkpoints, performed, given>> PROVE ExecInv'
    BY <2>1, <2>3 DEF ExecInv
  <2> QED BY <2>1, <2>2, <2>3, PipelineStep DEF ExecNext, PauseExecutor, execVars
<1>3. ExecInv => PipelinesRunInOrder
  BY DEF ExecInv, InOrder, PipelinesRunInOrder
<1> QED BY <1>1, <1>2, <1>3, PTL DEF ExecSpec
-----------------------------------------------------------------------------
(* The totals in the registry.                                             *)

LEMMA InitializedKeeps ==
    ASSUME NEW x \in Handle
    PROVE  EnsureInitialized(x) \in Handle /\ EnsureInitialized(x).v = x.v
<1>1. Zero \in Handle /\ Zero.v = 0 /\ (~IsInitialized(x) => x.v = 0)
  BY HandleFacts DEF Zero
<1> QED BY <1>1 DEF EnsureInitialized

\* What a report changes of the totals.
LEMMA ReportedIn ==
    ASSUME encryptedTvls \in [Slots -> Handle], NEW s \in Slots, NEW a \in Handle,
           NEW granted, encryptedTvls[s].v + a.v < Modulus, ReportIn(s, a, granted)
    PROVE  /\ encryptedTvls' \in [Slots -> Handle]
           /\ \A r \in Slots : encryptedTvls'[r].v =
                 encryptedTvls[r].v + IF r = s /\ s # 0 THEN a.v ELSE 0
<1>0. \A r \in Slots : encryptedTvls[r].v \in Nat
  BY HandleFacts
<1>1. CASE s = 0
  <2>1. encryptedTvls' = encryptedTvls
    BY <1>1 DEF ReportIn
  <2> QED BY <1>0, <1>1, <2>1
<1>2. CASE s # 0
  <2>1. PICK old \in Handle : old = EnsureInitialized(encryptedTvls[s])
                              /\ old.v = encryptedTvls[s].v
    BY InitializedKeeps
  <2>2. PICK new \in Handle : new = SafeIncrease(old, a) /\ new.v = old.v + a.v
    BY <2>1, TryIncreaseExact DEF SafeIncrease
  <2>3. encryptedTvls' = [encryptedTvls EXCEPT ![s] = new]
    BY <1>2, <2>1, <2>2 DEF ReportIn, IncrementTvl
  <2> QED BY <1>0, <1>2, <2>1, <2>2, <2>3
<1> QED BY <1>1, <1>2

LEMMA ReportedOut ==
    ASSUME encryptedTvls \in [Slots -> Handle], NEW s \in Slots, NEW a \in Handle,
           ReportOut(s, a)
    PROVE  /\ encryptedTvls' \in [Slots -> Handle]
           /\ \A r \in Slots : encryptedTvls'[r].v >=
                 encryptedTvls[r].v - IF r = s /\ s # 0 THEN a.v ELSE 0
<1>0. \A r \in Slots : encryptedTvls[r].v \in Nat
  BY HandleFacts
<1>1. CASE s = 0
  <2>1. encryptedTvls' = encryptedTvls
    BY <1>1 DEF ReportOut
  <2> QED BY <1>0, <1>1, <2>1
<1>2. CASE s # 0
  <2>1. PICK old \in Handle : old = EnsureInitialized(encryptedTvls[s])
                              /\ old.v = encryptedTvls[s].v
    BY InitializedKeeps
  <2>2. PICK new \in Handle : new = SafeDecrease(old, a) /\ old.v - new.v <= a.v
                              /\ new.v \in Nat
    BY <2>1, SafeUpdatesBounded
  <2>3. encryptedTvls' = [encryptedTvls EXCEPT ![s] = new]
    BY <1>2, <2>1, <2>2 DEF ReportOut, DecrementTvl
  <2>4. a.v \in Nat
    BY HandleFacts
  <2> QED BY <1>0, <1>2, <2>1, <2>2, <2>3, <2>4
<1> QED BY <1>1, <1>2

\* What a position, with encrypted collateral c, has in a strategy.
Share(p, c, s) == IF p.exists /\ p.strategyId = s THEN c.v ELSE 0

Encrypted ==
    /\ collateral \in [Accounts -> [PositionIds -> Handle]]
    /\ encryptedTvls \in [Slots -> Handle]
    /\ \A s \in Slots : encryptedTvls[s].v <= MaxEncrypted[TRUE]
    /\ \A u \in Accounts, id \in PositionIds : collateral[u][id].v <= MaxEncrypted[TRUE]

\* Nobody but the beneficiary has encrypted collateral in a position.
Covering ==
    /\ \A u \in Accounts, id \in PositionIds : u # id[1] => collateral[u][id].v = 0
    /\ \A id \in Open : /\ position[id].strategyId <= strategyCount
                        /\ collateral[id[1]][id].v >= position[id].deposited
    /\ \A s \in 1 .. MaxStrategies :
          IsFiniteSet(Booked(s)) /\ encryptedTvls[s].v >= Cardinality(Booked(s))

TvlInv == VaultInv /\ Encrypted /\ Covering

\* A call changes one position and the collateral under its id, and the totals by no
\* less than what its strategy gains or loses.
LEMMA CoveringStep ==
    ASSUME TvlInv, VaultInv', Encrypted', NEW id \in PositionIds, NEW p \in Position,
           position' = [position EXCEPT ![id] = p], strategyCount' = strategyCount,
           \A v \in Accounts, j \in PositionIds : j # id => collateral'[v][j] = collateral[v][j],
           \A v \in Accounts : v # id[1] => collateral'[v][id].v = 0,
           p.exists => /\ p.strategyId <= strategyCount
                       /\ collateral'[id[1]][id].v >= p.deposited,
           \A s \in 1 .. MaxStrategies :
              encryptedTvls'[s].v >= encryptedTvls[s].v
                                     + Share(p, collateral'[id[1]][id], s)
                                     - Share(position[id], collateral[id[1]][id], s)
    PROVE  Covering'
<1>1. /\ position \in [PositionIds -> Position] /\ id[1] \in Accounts
      /\ position'[id] = p /\ \A j \in PositionIds \ {id} : position'[j] = position[j]
  BY IdFacts DEF TvlInv, VaultInv, VaultTypes
<1>2. \A j \in Open : position[j].beneficiary = j[1] /\ j[1] \in Accounts /\ j \in PositionIds
  BY IdFacts DEF TvlInv, VaultInv, OpenOnes, Open
<1>3. \A j \in Open' : position'[j].beneficiary = j[1] /\ j \in PositionIds
  BY DEF VaultInv, OpenOnes, Open
<1>4. ASSUME NEW j \in Open', j # id
      PROVE  j \in Open /\ position'[j] = position[j]
             /\ collateral'[j[1]][j] = collateral[j[1]][j]
  BY <1>1, <1>2, <1>3, <1>4 DEF Open
<1>5. ASSUME NEW s \in 1 .. MaxStrategies
      PROVE  IsFiniteSet(Booked(s)') /\ encryptedTvls'[s].v >= Cardinality(Booked(s)')
  <2>1. PICK n \in Nat, m \in Nat : /\ n = Share(position[id], collateral[id[1]][id], s)
                                    /\ m = Share(p, collateral'[id[1]][id], s)
    <3>1. collateral[id[1]][id] \in Handle /\ collateral'[id[1]][id] \in Handle
      BY <1>1 DEF TvlInv, Encrypted
    <3> QED BY <3>1, HandleFacts DEF Share
  <2>2. PICK R : R = UNION { {j} \X (1 .. collateral[j[1]][j].v) :
                                j \in { i \in PositionIds \ {id} :
                                           position[i].exists /\ position[i].strategyId = s } }
    OBVIOUS
  <2>3. PICK S, U : S = Booked(s) /\ U = Booked(s)'
    OBVIOUS
  <2>4. R \cap ({id} \X (1 .. n)) = {} /\ R \cap ({id} \X (1 .. m)) = {}
    BY <2>2
  <2>5. S = UNION { {j} \X (1 .. collateral[j[1]][j].v) :
                       j \in { i \in PositionIds : position[i].exists
                                                   /\ position[i].strategyId = s } }
    BY <1>2, <2>3 DEF Booked, Of, Collateral, Open
  <2>6. U = UNION { {j} \X (1 .. collateral'[j[1]][j].v) :
                       j \in { i \in PositionIds : position'[i].exists
                                                   /\ position'[i].strategyId = s } }
    BY <1>3, <2>3 DEF Booked, Of, Collateral, Open
  <2>7. S = R \cup ({id} \X (1 .. n))
    BY <1>1, <2>1, <2>2, <2>5 DEF Share
  <2>8. U = R \cup ({id} \X (1 .. m))
    <3>1. \A j \in PositionIds \ {id} : collateral'[j[1]][j] = collateral[j[1]][j]
      BY IdFacts
    <3> QED BY <1>1, <2>1, <2>2, <2>6, <3>1 DEF Share
  <2>9. IsFiniteSet(S) /\ encryptedTvls[s].v >= Cardinality(S) /\ Cardinality(S) \in Nat
    BY <2>3, FS_CardinalityType DEF TvlInv, Covering
  <2>10. Replaced(R, id, n, m, S, U)
    BY <2>1, <2>4, <2>7, <2>8, <2>9, Zenon DEF Replaced
  <2>11. IsFiniteSet(U) /\ Cardinality(U) = Cardinality(S) + m - n
    BY <2>10, UnitsReplaced
  <2>12. encryptedTvls'[s].v >= encryptedTvls[s].v + m - n
    BY <2>1
  <2>13. encryptedTvls'[s].v \in Nat /\ encryptedTvls[s].v \in Nat
    <3>1. s \in Slots
      BY RegistryAssumption DEF Slots
    <3>2. encryptedTvls'[s] \in Handle /\ encryptedTvls[s] \in Handle
      BY <3>1 DEF TvlInv, Encrypted
    <3> QED BY <3>2, HandleFacts
  <2> QED BY <2>1, <2>3, <2>9, <2>11, <2>12, <2>13
<1>6. ASSUME NEW v \in Accounts, NEW j \in PositionIds, v # j[1]
      PROVE  collateral'[v][j].v = 0
  <2>1. CASE j = id
    BY <1>6, <2>1
  <2>2. CASE j # id
    BY <1>6, <2>2 DEF TvlInv, Covering
  <2> QED BY <2>1, <2>2
<1>7. ASSUME NEW j \in Open'
      PROVE  /\ position'[j].strategyId <= strategyCount'
             /\ collateral'[j[1]][j].v >= position'[j].deposited
  <2>1. CASE j = id
    BY <1>1, <1>7, <2>1 DEF Open
  <2>2. CASE j # id
    BY <1>4, <1>7, <2>2 DEF TvlInv, Covering
  <2> QED BY <2>1, <2>2
<1> QED BY <1>5, <1>6, <1>7 DEF Covering

\* The bound on encrypted numbers, behind a step.
Bounded ==
    /\ \A s \in Slots : encryptedTvls[s].v <= MaxEncrypted[TRUE]
    /\ \A u \in Accounts, id \in PositionIds : collateral[u][id].v <= MaxEncrypted[TRUE]

LEMMA AmountFits ==
    ASSUME NEW amount \in Amounts
    PROVE  /\ amount \in Nat /\ amount < Modulus /\ amount # 0
           /\ Ct(amount) \in Handle /\ Ct(amount).v = amount
           /\ \A x \in Handle : x.v <= MaxEncrypted[TRUE] => x.v + amount < Modulus
<1>1. PICK M \in Nat : M = MaxEncrypted[TRUE]
  BY EncryptedFits
<1>2. M \in Nat /\ amount \in Nat /\ amount # 0 /\ M + amount < Modulus
  BY <1>1, EncryptedFits, VaultAssumption
<1>3. amount < Modulus /\ amount \in Plain
  BY <1>2, ModulusAssumption DEF Plain
<1>4. Ct(amount) \in Handle /\ Ct(amount).v = amount
  BY <1>3, HandleFacts
<1>5. ASSUME NEW x \in Handle, x.v <= M PROVE x.v + amount < Modulus
  <2>1. x.v \in Nat
    BY HandleFacts
  <2> QED BY <1>2, <1>5, <2>1, ModulusAssumption
<1> QED BY <1>1, <1>2, <1>3, <1>4, <1>5

\* The encrypted part of a position under one account is written.
LEMMA Written ==
    ASSUME collateral \in [Accounts -> [PositionIds -> Handle]],
           NEW u \in Accounts, NEW id \in PositionIds, NEW c \in Handle,
           collateral' = [collateral EXCEPT ![u][id] = c]
    PROVE  /\ collateral' \in [Accounts -> [PositionIds -> Handle]]
           /\ collateral'[u][id] = c
           /\ \A v \in Accounts, j \in PositionIds :
                 v # u \/ j # id => collateral'[v][j] = collateral[v][j]
OBVIOUS

LEMMA OpenCovers ==
    ASSUME TvlInv, VaultInv', Bounded', NEW by \in Accounts, NEW user \in Accounts,
           NEW t \in Tokens, NEW amount \in Amounts, NEW s \in 0 .. strategyCount,
           OpenPosition(by, t, amount, Ct(amount), s, user)
    PROVE  TvlInv'
<1>1. /\ userPositionNonce[user] \in Nat /\ userPositionNonce[user] < MaxPositions[user]
      /\ strategyCount \in Slots /\ s \in Slots /\ now \in Nat /\ s <= strategyCount
  <2>1. userPositionNonce[user] < MaxPositions[user]
    BY DEF OpenPosition
  <2>2. strategyCount \in 0 .. MaxStrategies /\ MaxStrategies \in Nat
    BY RegistryAssumption DEF TvlInv, VaultInv, VaultTypes, Slots
  <2>3. s \in 0 .. MaxStrategies /\ s <= strategyCount
    BY <2>2
  <2> QED BY <2>1, <2>2, <2>3 DEF TvlInv, VaultInv, VaultTypes, Slots
<1>2. PICK id \in PositionIds : id = <<user, userPositionNonce[user]>>
  BY <1>1, IdFacts
<1>3. id[1] = user /\ id[2] = userPositionNonce[user]
  BY <1>2
<1>4. PICK p \in Position :
        p = [deposited |-> amount, token |-> t, strategyId |-> s, openedAt |-> now,
             exists |-> TRUE, owner |-> by, beneficiary |-> user]
  BY <1>1, AmountFits DEF Position
<1>5. PICK a \in Handle : a = Ct(amount) /\ a.v = amount
  BY AmountFits
<1>6. /\ position' = [position EXCEPT ![id] = p] /\ strategyCount' = strategyCount
      /\ collateral' = [collateral EXCEPT ![user][id] = a]
      /\ ReportIn(s, a, TRUE)
  BY <1>2, <1>4, <1>5 DEF OpenPosition, registry, catalog
<1>7. collateral \in [Accounts -> [PositionIds -> Handle]]
      /\ encryptedTvls \in [Slots -> Handle]
  BY DEF TvlInv, Encrypted
<1>8. /\ collateral' \in [Accounts -> [PositionIds -> Handle]]
      /\ collateral'[user][id] = a
      /\ \A v \in Accounts, j \in PositionIds :
            v # user \/ j # id => collateral'[v][j] = collateral[v][j]
  BY <1>6, <1>7, Written
<1>9. /\ encryptedTvls' \in [Slots -> Handle]
      /\ \A r \in Slots : encryptedTvls'[r].v =
            encryptedTvls[r].v + IF r = s /\ s # 0 THEN a.v ELSE 0
  <2>1. encryptedTvls[s].v + a.v < Modulus
    BY <1>1, <1>5, <1>7, AmountFits DEF TvlInv, Encrypted
  <2> QED BY <1>1, <1>6, <1>7, <2>1, ReportedIn
<1>10. Encrypted'
  BY <1>8, <1>9 DEF Encrypted, Bounded
<1>11. ~position[id].exists
  BY <1>1, <1>3 DEF TvlInv, VaultInv, OpenOnes, Open
<1>12. p.exists /\ p.strategyId = s /\ p.deposited = amount
  BY <1>4
<1>13. ASSUME NEW r \in 1 .. MaxStrategies
       PROVE  encryptedTvls'[r].v >= encryptedTvls[r].v
                                     + Share(p, collateral'[id[1]][id], r)
                                     - Share(position[id], collateral[id[1]][id], r)
  <2>1. r \in Slots /\ r # 0
    BY RegistryAssumption DEF Slots
  <2>2. encryptedTvls[r].v \in Nat /\ a.v \in Nat
    BY <1>7, <2>1, HandleFacts
  <2>3. /\ Share(p, collateral'[id[1]][id], r) = IF r = s /\ s # 0 THEN a.v ELSE 0
        /\ Share(position[id], collateral[id[1]][id], r) = 0
    BY <1>3, <1>8, <1>11, <1>12, <2>1 DEF Share
  <2> QED BY <1>9, <2>1, <2>2, <2>3
<1>14. \A v \in Accounts : v # id[1] => collateral'[v][id].v = 0
  BY <1>3, <1>8 DEF TvlInv, Covering
<1>15. collateral'[id[1]][id].v >= p.deposited
  <2>1. amount \in Nat
    BY AmountFits
  <2>2. collateral'[id[1]][id].v = amount
    BY <1>3, <1>5, <1>8
  <2> QED BY <1>12, <2>1, <2>2
<1>16. \A v \in Accounts, j \in PositionIds : j # id => collateral'[v][j] = collateral[v][j]
  BY <1>8
<1>17. Covering'
  BY <1>1, <1>6, <1>10, <1>12, <1>13, <1>14, <1>15, <1>16, CoveringStep
<1> QED BY <1>10, <1>17 DEF TvlInv

LEMMA AddCovers ==
    ASSUME TvlInv, VaultInv', Bounded', NEW by \in Accounts, NEW user \in Accounts,
           NEW t \in Tokens, NEW amount \in Amounts, NEW id \in PositionIds, NEW granted,
           position[id].beneficiary = user,
           AddCollateral(by, id, t, amount, Ct(amount), granted, user)
    PROVE  TvlInv'
<1>1. position \in [PositionIds -> Position] /\ position[id].exists
  BY DEF TvlInv, VaultInv, VaultTypes, AddCollateral
<1>2. id \in Open /\ id[1] = user
  BY <1>1 DEF TvlInv, VaultInv, OpenOnes, Open
<1>3. PICK q \in Position : q = position[id]
  BY <1>1
<1>4. PICK p : p = [q EXCEPT !.deposited = q.deposited + amount]
  OBVIOUS
<1>5. amount \in Nat /\ q.deposited \in Nat /\ q.strategyId \in Slots /\ q.exists
      /\ q.strategyId <= strategyCount
  BY <1>1, <1>2, <1>3, AmountFits DEF Position, TvlInv, Covering
<1>6. /\ p \in Position /\ p.exists /\ p.strategyId = q.strategyId
      /\ p.deposited = q.deposited + amount
  <2>1. q.deposited + amount \in Nat
    BY <1>5
  <2>2. p.strategyId = q.strategyId
    BY <1>4 DEF Position
  <2> QED BY <1>4, <1>5, <2>1, <2>2, DepositChanges
<1>7. PICK a \in Handle : a = Ct(amount) /\ a.v = amount
  BY AmountFits
<1>8. collateral \in [Accounts -> [PositionIds -> Handle]]
      /\ encryptedTvls \in [Slots -> Handle]
  BY DEF TvlInv, Encrypted
<1>9. PICK old \in Handle : old = collateral[user][id]
  BY <1>8
<1>10. old.v + a.v < Modulus /\ old.v \in Nat /\ old.v >= q.deposited
  BY <1>2, <1>3, <1>7, <1>9, AmountFits, HandleFacts DEF TvlInv, Encrypted, Covering
<1>11. PICK new \in Handle : new = SafeIncrease(old, a) /\ new.v = old.v + a.v
  BY <1>10, TryIncreaseExact DEF SafeIncrease
<1>12. /\ position' = [position EXCEPT ![id] = p] /\ strategyCount' = strategyCount
       /\ collateral' = [collateral EXCEPT ![user][id] = new]
       /\ ReportIn(q.strategyId, a, granted)
  <2>1. position' = [position EXCEPT ![id] = p]
    BY <1>3, <1>4 DEF AddCollateral
  <2>2. collateral' = [collateral EXCEPT ![user][id] = new]
    BY <1>7, <1>9, <1>11 DEF AddCollateral
  <2>3. ReportIn(q.strategyId, a, granted) /\ strategyCount' = strategyCount
    BY <1>3, <1>7 DEF AddCollateral, registry, catalog
  <2> QED BY <2>1, <2>2, <2>3
<1>13. /\ collateral' \in [Accounts -> [PositionIds -> Handle]]
       /\ collateral'[user][id] = new
       /\ \A v \in Accounts, j \in PositionIds :
             v # user \/ j # id => collateral'[v][j] = collateral[v][j]
  BY <1>8, <1>12, Written
<1>14. /\ encryptedTvls' \in [Slots -> Handle]
       /\ \A r \in Slots : encryptedTvls'[r].v =
             encryptedTvls[r].v + IF r = q.strategyId /\ q.strategyId # 0 THEN a.v ELSE 0
  <2>1. encryptedTvls[q.strategyId].v + a.v < Modulus
    BY <1>5, <1>7, <1>8, AmountFits DEF TvlInv, Encrypted
  <2> QED BY <1>5, <1>8, <1>12, <2>1, ReportedIn
<1>15. Encrypted'
  BY <1>13, <1>14 DEF Encrypted, Bounded
<1>16. ASSUME NEW r \in 1 .. MaxStrategies
       PROVE  encryptedTvls'[r].v >= encryptedTvls[r].v
                                     + Share(p, collateral'[id[1]][id], r)
                                     - Share(position[id], collateral[id[1]][id], r)
  <2>1. r \in Slots /\ r # 0
    BY RegistryAssumption DEF Slots
  <2>2. encryptedTvls[r].v \in Nat /\ a.v \in Nat
    BY <1>8, <2>1, HandleFacts
  <2>3. /\ Share(p, collateral'[id[1]][id], r) = IF r = q.strategyId THEN old.v + a.v ELSE 0
        /\ Share(position[id], collateral[id[1]][id], r) = IF r = q.strategyId THEN old.v ELSE 0
    BY <1>2, <1>3, <1>5, <1>6, <1>9, <1>11, <1>13 DEF Share
  <2> QED BY <1>10, <1>14, <2>1, <2>2, <2>3
<1>17. \A v \in Accounts : v # id[1] => collateral'[v][id].v = 0
  BY <1>2, <1>13 DEF TvlInv, Covering
<1>18. collateral'[id[1]][id].v >= p.deposited
  BY <1>2, <1>5, <1>6, <1>7, <1>10, <1>11, <1>13
<1>19. \A v \in Accounts, j \in PositionIds : j # id => collateral'[v][j] = collateral[v][j]
  BY <1>13
<1>20. Covering'
  BY <1>5, <1>6, <1>12, <1>15, <1>16, <1>17, <1>18, <1>19, CoveringStep
<1> QED BY <1>15, <1>20 DEF TvlInv

\* What a close or a paused withdrawal leaves of a position.
LEMMA RemainderFacts ==
    ASSUME NEW q \in Position, NEW amount \in Nat, amount <= q.deposited
    PROVE  \E p \in Position :
              /\ p = Remainder(q, amount)
              /\ p.strategyId = q.strategyId \/ ~p.exists
              /\ IF amount = q.deposited THEN ~p.exists
                 ELSE p.exists = q.exists /\ p.deposited = q.deposited - amount
<1>1. CASE amount = q.deposited
  <2>1. PICK c \in Position : c = Cleared(q) /\ ~c.exists
    BY ClearedFacts
  <2> QED BY <1>1, <2>1 DEF Remainder
<1>2. CASE amount # q.deposited
  <2>0. PICK n \in Nat : n = q.deposited - amount
    BY DEF Position
  <2>1. PICK r : r = [q EXCEPT !.deposited = n]
    OBVIOUS
  <2>3. r \in Position /\ r.exists = q.exists /\ r.deposited = n
    <3>1. n \in Nat
      BY <2>0
    <3> QED BY <2>1, <3>1, DepositChanges
  <2>4. r.strategyId = q.strategyId
    BY <2>1 DEF Position
  <2>5. Remainder(q, amount) = r
    BY <1>2, <2>0, <2>1 DEF Remainder
  <2> QED BY <1>2, <2>0, <2>3, <2>4, <2>5
<1> QED BY <1>1, <1>2

LEMMA CloseCovers ==
    ASSUME TvlInv, VaultInv', Bounded', NEW by \in Accounts, NEW id \in PositionIds,
           NEW amount \in Amounts, NEW e \in {0, amount},
           ClosePosition(by, id, amount, Ct(e))
    PROVE  TvlInv'
<1>1. PICK q \in Position : q = position[id]
  BY DEF TvlInv, VaultInv, VaultTypes
<1>2. q.exists /\ amount <= q.deposited
  BY <1>1 DEF ClosePosition, WithinDeposit
<1>3. id \in Open /\ q.beneficiary = id[1] /\ id[1] \in Accounts
  BY <1>1, <1>2, IdFacts DEF TvlInv, VaultInv, OpenOnes, Open
<1>4. /\ amount \in Nat /\ amount # 0 /\ q.deposited \in Nat /\ q.strategyId \in Slots
      /\ q.strategyId <= strategyCount
  BY <1>1, <1>3, AmountFits DEF Position, TvlInv, Covering
<1>5. PICK a \in Handle : a = VerifyEquality(Ct(e), amount) /\ a.v <= amount /\ a.v \in Nat
  <2>1. Ct(e) \in Handle
    <3>1. CASE e = 0
      <4>1. 0 \in Plain
        BY ModulusAssumption DEF Plain
      <4> QED BY <3>1, <4>1, HandleFacts
    <3>2. CASE e = amount
      BY <3>2, AmountFits
    <3> QED BY <3>1, <3>2
  <2> QED BY <1>4, <2>1, VerifyEqualityBounded, HandleFacts
<1>6. PICK p \in Position : /\ p = Remainder(q, amount)
                            /\ p.strategyId = q.strategyId \/ ~p.exists
                            /\ IF amount = q.deposited THEN ~p.exists
                               ELSE p.exists /\ p.deposited = q.deposited - amount
  BY <1>2, <1>4, RemainderFacts
<1>7. collateral \in [Accounts -> [PositionIds -> Handle]]
      /\ encryptedTvls \in [Slots -> Handle]
  BY DEF TvlInv, Encrypted
<1>8. PICK old \in Handle : old = collateral[id[1]][id]
  BY <1>3, <1>7
<1>9. old.v \in Nat /\ old.v >= q.deposited /\ old.v >= a.v
  BY <1>1, <1>2, <1>3, <1>4, <1>5, <1>8, HandleFacts DEF TvlInv, Covering
<1>10. PICK new \in Handle :
         /\ new = IF amount = q.deposited THEN NoHandle ELSE SafeDecrease(old, a)
         /\ amount # q.deposited => new.v = old.v - a.v
  <2>1. NoHandle \in Handle
    BY HandleFacts
  <2> QED BY <1>9, <2>1, TryDecreaseExact DEF SafeDecrease
<1>11. /\ position' = [position EXCEPT ![id] = p] /\ strategyCount' = strategyCount
       /\ collateral' = [collateral EXCEPT ![id[1]][id] = new]
       /\ ReportOut(q.strategyId, a)
  <2>1. position' = [position EXCEPT ![id] = p] /\ strategyCount' = strategyCount
    BY <1>1, <1>6 DEF ClosePosition, registry, catalog
  <2>2. collateral' = [collateral EXCEPT ![id[1]][id] = new]
    BY <1>1, <1>3, <1>5, <1>8, <1>10 DEF ClosePosition
  <2>3. ReportOut(q.strategyId, a)
    BY <1>1, <1>5 DEF ClosePosition
  <2> QED BY <2>1, <2>2, <2>3
<1>12. /\ collateral' \in [Accounts -> [PositionIds -> Handle]]
       /\ collateral'[id[1]][id] = new
       /\ \A v \in Accounts, j \in PositionIds :
             v # id[1] \/ j # id => collateral'[v][j] = collateral[v][j]
  BY <1>3, <1>7, <1>11, Written
<1>13. /\ encryptedTvls' \in [Slots -> Handle]
       /\ \A r \in Slots : encryptedTvls'[r].v >=
             encryptedTvls[r].v - IF r = q.strategyId /\ q.strategyId # 0 THEN a.v ELSE 0
  BY <1>4, <1>7, <1>11, ReportedOut
<1>14. Encrypted'
  BY <1>12, <1>13 DEF Encrypted, Bounded
<1>15. ASSUME NEW r \in 1 .. MaxStrategies
       PROVE  encryptedTvls'[r].v >= encryptedTvls[r].v
                                     + Share(p, collateral'[id[1]][id], r)
                                     - Share(position[id], collateral[id[1]][id], r)
  <2>1. r \in Slots /\ r # 0
    BY RegistryAssumption DEF Slots
  <2>2. encryptedTvls[r].v \in Nat /\ encryptedTvls'[r].v \in Nat
    BY <1>7, <1>13, <2>1, HandleFacts
  <2>3. /\ Share(position[id], collateral[id[1]][id], r) = IF r = q.strategyId THEN old.v ELSE 0
        /\ Share(p, collateral'[id[1]][id], r) =
              IF amount # q.deposited /\ r = q.strategyId THEN old.v - a.v ELSE 0
    BY <1>1, <1>2, <1>6, <1>8, <1>10, <1>12 DEF Share
  <2> QED BY <1>5, <1>9, <1>13, <2>1, <2>2, <2>3
<1>16. \A v \in Accounts : v # id[1] => collateral'[v][id].v = 0
  BY <1>12 DEF TvlInv, Covering
<1>17. p.exists => p.strategyId <= strategyCount /\ collateral'[id[1]][id].v >= p.deposited
  BY <1>4, <1>5, <1>6, <1>9, <1>10, <1>12
<1>18. \A v \in Accounts, j \in PositionIds : j # id => collateral'[v][j] = collateral[v][j]
  BY <1>12
<1>19. Covering'
  BY <1>11, <1>14, <1>15, <1>16, <1>17, <1>18, CoveringStep
<1> QED BY <1>14, <1>19 DEF TvlInv

LEMMA WithdrawCovers ==
    ASSUME TvlInv, VaultInv', Bounded', NEW by \in Accounts, NEW id \in PositionIds,
           WithdrawPaused(by, id)
    PROVE  TvlInv'
<1>1. PICK q \in Position : q = position[id]
  BY DEF TvlInv, VaultInv, VaultTypes
<1>2. q.exists /\ q.strategyId \in Slots
  BY <1>1 DEF WithdrawPaused, Position
<1>3. id[1] \in Accounts
  BY IdFacts
<1>4. PICK p \in Position : p = Cleared(q) /\ ~p.exists
  BY ClearedFacts
<1>5. collateral \in [Accounts -> [PositionIds -> Handle]]
      /\ encryptedTvls \in [Slots -> Handle]
  BY DEF TvlInv, Encrypted
<1>6. PICK a \in Handle : /\ a = EnsureInitialized(collateral[by][id])
                          /\ a.v = collateral[by][id].v
  BY <1>5, InitializedKeeps
<1>7. /\ position' = [position EXCEPT ![id] = p] /\ strategyCount' = strategyCount
      /\ collateral' = [collateral EXCEPT ![by][id] = NoHandle]
      /\ ReportOut(q.strategyId, a)
  BY <1>1, <1>4, <1>6 DEF WithdrawPaused, registry, catalog
<1>8. /\ collateral' \in [Accounts -> [PositionIds -> Handle]]
      /\ collateral'[by][id] = NoHandle /\ NoHandle.v = 0
      /\ \A v \in Accounts, j \in PositionIds :
            v # by \/ j # id => collateral'[v][j] = collateral[v][j]
  <2>1. NoHandle \in Handle /\ NoHandle.v = 0
    BY HandleFacts DEF NoHandle
  <2> QED BY <1>5, <1>7, <2>1, Written
<1>9. /\ encryptedTvls' \in [Slots -> Handle]
      /\ \A r \in Slots : encryptedTvls'[r].v >=
            encryptedTvls[r].v - IF r = q.strategyId /\ q.strategyId # 0 THEN a.v ELSE 0
  BY <1>2, <1>5, <1>7, ReportedOut
<1>10. Encrypted'
  BY <1>8, <1>9 DEF Encrypted, Bounded
<1>11. a.v <= collateral[id[1]][id].v /\ a.v \in Nat /\ collateral[id[1]][id].v \in Nat
  <2>1. collateral[id[1]][id] \in Handle /\ collateral[id[1]][id].v \in Nat /\ a.v \in Nat
    BY <1>3, <1>5, HandleFacts
  <2>2. by # id[1] => a.v = 0
    BY <1>6 DEF TvlInv, Covering
  <2> QED BY <1>6, <2>1, <2>2
<1>12. ASSUME NEW r \in 1 .. MaxStrategies
       PROVE  encryptedTvls'[r].v >= encryptedTvls[r].v
                                     + Share(p, collateral'[id[1]][id], r)
                                     - Share(position[id], collateral[id[1]][id], r)
  <2>1. r \in Slots /\ r # 0
    BY RegistryAssumption DEF Slots
  <2>2. encryptedTvls[r].v \in Nat /\ encryptedTvls'[r].v \in Nat
    BY <1>5, <1>9, <2>1, HandleFacts
  <2>3. PICK n \in Nat : n = collateral[id[1]][id].v
    BY <1>11
  <2>4. /\ Share(position[id], collateral[id[1]][id], r) = IF r = q.strategyId THEN n ELSE 0
        /\ Share(p, collateral'[id[1]][id], r) = 0
    BY <1>1, <1>2, <1>4, <2>3 DEF Share
  <2> QED BY <1>9, <1>11, <2>1, <2>2, <2>3, <2>4
<1>13. \A v \in Accounts : v # id[1] => collateral'[v][id].v = 0
  <2>1. ASSUME NEW v \in Accounts, v # id[1] PROVE collateral'[v][id].v = 0
    <3>1. CASE v = by
      BY <1>8, <3>1
    <3>2. CASE v # by
      BY <1>8, <2>1, <3>2 DEF TvlInv, Covering
    <3> QED BY <3>1, <3>2
  <2> QED BY <2>1
<1>14. \A v \in Accounts, j \in PositionIds : j # id => collateral'[v][j] = collateral[v][j]
  BY <1>8
<1>15. Covering'
  BY <1>4, <1>7, <1>10, <1>12, <1>13, <1>14, CoveringStep
<1> QED BY <1>10, <1>15 DEF TvlInv

\* The registry's own steps: a new strategy begins with nothing, and no position is in it.
LEMMA NoBooking ==
    ASSUME TvlInv, VaultInv', Bounded', position' = position, collateral' = collateral,
           strategyCount' \in Slots, strategyCount <= strategyCount',
           \/ encryptedTvls' = encryptedTvls
           \/ encryptedTvls' = [encryptedTvls EXCEPT ![strategyCount + 1] = Zero]
    PROVE  TvlInv'
<1>0. strategyCount \in Nat /\ strategyCount' \in Nat
      /\ encryptedTvls \in [Slots -> Handle] /\ Zero \in Handle /\ Zero.v = 0
  <2>1. strategyCount \in 0 .. MaxStrategies /\ strategyCount' \in 0 .. MaxStrategies
        /\ MaxStrategies \in Nat
    BY RegistryAssumption DEF TvlInv, VaultInv, VaultTypes, Slots
  <2> QED BY <2>1, HandleFacts DEF TvlInv, Encrypted, Zero
<1>1. Encrypted'
  BY <1>0 DEF TvlInv, Encrypted, Bounded
<1>2. Open' = Open /\ \A s : Booked(s)' = Booked(s)
  BY DEF Open, Booked, Of, Collateral
<1>3. \A id \in Open : id \in PositionIds /\ position[id].strategyId \in 0 .. MaxStrategies
                       /\ position[id].strategyId <= strategyCount
  <2>1. ASSUME NEW id \in Open
        PROVE  id \in PositionIds /\ position[id].strategyId \in 0 .. MaxStrategies
    <3>1. position[id] \in Position
      BY <2>1 DEF TvlInv, VaultInv, VaultTypes, Open
    <3> QED BY <2>1, <3>1 DEF Position, Slots, Open
  <2> QED BY <2>1 DEF TvlInv, Covering
<1>4. ASSUME NEW s \in 1 .. MaxStrategies
      PROVE  IsFiniteSet(Booked(s)') /\ encryptedTvls'[s].v >= Cardinality(Booked(s)')
  <2>0. IsFiniteSet(Booked(s)) /\ encryptedTvls[s].v >= Cardinality(Booked(s))
    BY DEF TvlInv, Covering
  <2>1. CASE encryptedTvls'[s] = encryptedTvls[s]
    BY <1>2, <2>0, <2>1
  <2>2. CASE encryptedTvls'[s] # encryptedTvls[s]
    <3>1. s = strategyCount + 1 /\ encryptedTvls'[s].v = 0
      <4>1. s \in Slots
        BY RegistryAssumption DEF Slots
      <4> QED BY <1>0, <2>2, <4>1
    <3>2. Booked(s) = {}
      <4>1. Of(s) = {}
        BY <1>0, <1>3, <3>1 DEF Of
      <4> QED BY <4>1 DEF Booked
    <3> QED BY <1>2, <3>1, <3>2, FS_EmptySet
  <2> QED BY <2>1, <2>2
<1>5. ASSUME NEW id \in Open
      PROVE  position'[id].strategyId <= strategyCount'
             /\ collateral'[id[1]][id].v >= position'[id].deposited
  <2>1. position[id].strategyId \in Nat /\ position[id].strategyId <= strategyCount
    BY <1>3
  <2> QED BY <1>0, <1>5, <2>1 DEF TvlInv, Covering
<1>6. Covering'
  BY <1>2, <1>4, <1>5 DEF TvlInv, Covering
<1> QED BY <1>1, <1>6 DEF TvlInv

LEMMA RegistryCovers ==
    ASSUME TvlInv, VaultInv', Bounded', RegistryCalls
    PROVE  TvlInv'
<1>1. position' = position /\ collateral' = collateral /\ strategyCount' \in Slots
  BY DEF RegistryCalls, vaultVars, books, VaultInv, VaultTypes
<1>0. strategyCount \in Nat
  <2>1. strategyCount \in 0 .. MaxStrategies /\ MaxStrategies \in Nat
    BY RegistryAssumption DEF TvlInv, VaultInv, VaultTypes, Slots
  <2> QED BY <2>1
<1>2. \/ strategyCount' = strategyCount + 1 \/ strategyCount' = strategyCount
  <2>1. ASSUME NEW by, NEW name,
               RegisterStrategy(by, name) \/ ReceiveCrossChainStrategy(by, name)
        PROVE  strategyCount' = strategyCount + 1
    BY <2>1 DEF RegisterStrategy, ReceiveCrossChainStrategy
  <2>2. ASSUME NEW by, NEW s, NEW on, SetActive(by, s, on)
        PROVE  strategyCount' = strategyCount
    BY <2>2 DEF SetActive
  <2>3. ASSUME NEW v, NEW on, \/ SetVault(v) \/ ProposeVault(v)
                              \/ AcceptVault \/ PauseRegistry(on)
        PROVE  strategyCount' = strategyCount
    BY <2>3 DEF SetVault, ProposeVault, AcceptVault, PauseRegistry, catalog
  <2> QED BY <2>1, <2>2, <2>3 DEF RegistryCalls
<1>3. \/ encryptedTvls' = encryptedTvls
      \/ encryptedTvls' = [encryptedTvls EXCEPT ![strategyCount + 1] = Zero]
  <2>1. ASSUME NEW by, NEW name, RegisterStrategy(by, name)
        PROVE  encryptedTvls' = [encryptedTvls EXCEPT ![strategyCount + 1] = Zero]
    BY <2>1 DEF RegisterStrategy
  <2>2. ASSUME NEW by, NEW name, NEW s, NEW v, NEW on,
               \/ ReceiveCrossChainStrategy(by, name) \/ SetActive(by, s, on)
               \/ SetVault(v) \/ ProposeVault(v) \/ AcceptVault \/ PauseRegistry(on)
        PROVE  encryptedTvls' = encryptedTvls
    BY <2>2 DEF ReceiveCrossChainStrategy, SetActive, SetVault, ProposeVault, AcceptVault,
                PauseRegistry
  <2> QED BY <2>1, <2>2 DEF RegistryCalls
<1>4. strategyCount <= strategyCount'
  BY <1>0, <1>2
<1> QED BY <1>1, <1>3, <1>4, NoBooking

LEMMA BookedStep ==
    ASSUME TvlInv, FullyBookedNext, Bounded', VaultInv'
    PROVE  TvlInv'
<1>1. ASSUME NEW by \in Accounts, NEW user \in Accounts, NEW amount \in Amounts,
             DepositsInFull(by, user, amount)
      PROVE  TvlInv'
  <2>1. PICK t \in Tokens :
          \/ \E s \in 0 .. strategyCount :
                OpenPosition(by, t, amount, Ct(amount), s, user)
          \/ \E id \in PositionIds, granted \in BOOLEAN :
                /\ position[id].beneficiary = user
                /\ AddCollateral(by, id, t, amount, Ct(amount), granted, user)
    BY <1>1 DEF DepositsInFull
  <2> QED BY <2>1, OpenCovers, AddCovers
<1>2. ASSUME Returns PROVE TvlInv'
  BY <1>2, CloseCovers, WithdrawCovers DEF Returns
<1>3. ASSUME Tick \/ \E on \in BOOLEAN : PauseVault(on)
      PROVE  TvlInv'
  <2>1. /\ position' = position /\ collateral' = collateral /\ strategyCount' = strategyCount
        /\ encryptedTvls' = encryptedTvls
    BY <1>3 DEF Tick, PauseVault, vaultVars, books, registry, catalog
  <2>2. strategyCount' \in Slots /\ strategyCount <= strategyCount'
    <3>1. strategyCount \in 0 .. MaxStrategies /\ MaxStrategies \in Nat
      BY RegistryAssumption DEF TvlInv, VaultInv, VaultTypes, Slots
    <3> QED BY <2>1, <3>1 DEF Slots
  <2> QED BY <2>1, <2>2, NoBooking
<1> QED BY <1>1, <1>2, <1>3, RegistryCovers DEF FullyBookedNext, Others

\* Both populations keep the books, and who books in full the totals.
TotalsInv ==
    /\ VaultInv /\ fullyBooked \in BOOLEAN
    /\ fullyBooked = TRUE => Encrypted /\ Covering

LEMMA TotalsStart == MCInit => TotalsInv
<1>1. SUFFICES ASSUME MCInit PROVE TotalsInv
  OBVIOUS
<1>2. Init /\ VaultInv /\ fullyBooked \in BOOLEAN
  BY <1>1, VaultStart DEF MCInit
<1>3. /\ position = [id \in PositionIds |-> Unused]
      /\ collateral = [u \in Accounts |-> [id \in PositionIds |-> NoHandle]]
      /\ encryptedTvls = [s \in Slots |-> NoHandle]
  BY <1>2 DEF Init, RegistryInit
<1>4. NoHandle \in Handle /\ NoHandle.v = 0
  BY HandleFacts DEF NoHandle
<1>5. PICK M \in Nat : M = MaxEncrypted[TRUE]
  BY EncryptedFits
<1>6. Encrypted
  <2>1. /\ collateral \in [Accounts -> [PositionIds -> Handle]]
        /\ encryptedTvls \in [Slots -> Handle]
    BY <1>3, <1>4
  <2>2. /\ \A s \in Slots : encryptedTvls[s].v = 0
        /\ \A u \in Accounts, id \in PositionIds : collateral[u][id].v = 0
    BY <1>3, <1>4
  <2>3. 0 <= M
    <3>1. M \in Nat
      BY <1>5, Zenon
    <3> QED BY <3>1
  <2> QED BY <1>5, <2>1, <2>2, <2>3 DEF Encrypted
<1>7. Open = {}
  BY <1>3 DEF Open, Unused
<1>8. ASSUME NEW s \in 1 .. MaxStrategies
      PROVE  IsFiniteSet(Booked(s)) /\ encryptedTvls[s].v >= Cardinality(Booked(s))
  <2>1. Booked(s) = {}
    <3>1. Of(s) = {}
      BY <1>7 DEF Of
    <3> QED BY <3>1 DEF Booked
  <2>2. encryptedTvls[s].v = 0
    BY <1>3, <1>4, RegistryAssumption DEF Slots
  <2> QED BY <2>1, <2>2, FS_EmptySet
<1>9. Covering
  BY <1>3, <1>4, <1>7, <1>8 DEF Covering
<1> QED BY <1>2, <1>6, <1>9 DEF TotalsInv

LEMMA TotalsStay ==
    ASSUME TotalsInv, vaultOnly' = vaultOnly, fullyBooked' = fullyBooked, now' \in Nat
    PROVE  TotalsInv'
<1>1. /\ position' = position /\ collateral' = collateral /\ strategyCount' = strategyCount
      /\ encryptedTvls' = encryptedTvls /\ books' = books /\ bal' = bal
  BY DEF vaultOnly, vaultVars, books, catalog
<1>2. strategyCount' \in Slots
  BY <1>1 DEF TotalsInv, VaultInv, VaultTypes
<1>3. VaultInv'
  BY <1>1, <1>2, NothingBooked DEF TotalsInv
<1>4. Encrypted => Encrypted'
  BY <1>1 DEF Encrypted
<1>5. Open' = Open /\ \A s : Booked(s)' = Booked(s)
  BY <1>1 DEF Open, Booked, Of, Collateral
<1>6. Covering => Covering'
  BY <1>1, <1>5 DEF Covering
<1> QED BY <1>3, <1>4, <1>6 DEF TotalsInv

LEMMA TotalsStep == ASSUME TotalsInv, [MCNext]_mcVars PROVE TotalsInv'
<1>1. now \in Nat
  BY DEF TotalsInv, VaultInv, VaultTypes
<1>2. CASE UNCHANGED mcVars
  <2>1. vaultOnly' = vaultOnly /\ fullyBooked' = fullyBooked /\ now' = now
    BY <1>2 DEF mcVars, vars, vaultOnly, registry
  <2> QED BY <1>1, <2>1, TotalsStay
<1>3. CASE MCNext /\ RouterMoves
  <2>1. vaultOnly' = vaultOnly /\ fullyBooked' = fullyBooked /\ RouterNext
    BY <1>3 DEF MCNext, RouterMoves
  <2>2. now' = now \/ now' = now + 1
    <3>1. ASSUME NEW a, ProposeExecutor(a) \/ AcceptExecutor PROVE now' = now
      BY <3>1 DEF ProposeExecutor, AcceptExecutor, routerVars
    <3> QED BY <2>1, <3>1, OtherRouterMoves
  <2> QED BY <1>1, <2>1, <2>2, TotalsStay
<1>4. CASE MCNext /\ ExecutorMoves
  <2>1. vaultOnly' = vaultOnly /\ fullyBooked' = fullyBooked /\ now' = now
    BY <1>4 DEF MCNext, ExecutorMoves, vars, vaultOnly, registry
  <2> QED BY <1>1, <2>1, TotalsStay
<1>5. CASE MCNext /\ VaultMoves
  <2>0. /\ fullyBooked' = fullyBooked /\ fullyBooked \in BOOLEAN /\ VaultInv
        /\ (fullyBooked /\ FullyBookedNext) \/ (~fullyBooked /\ Next)
        /\ \A s \in Slots : encryptedTvls'[s].v <= MaxEncrypted[fullyBooked]
        /\ \A u \in Accounts, id \in PositionIds :
              collateral'[u][id].v <= MaxEncrypted[fullyBooked]
    BY <1>5 DEF MCNext, VaultMoves, TotalsInv
  <2>1. FullyBookedNext => Next
    <3>1. ASSUME NEW by \in Accounts, NEW user \in Accounts, NEW amount \in Amounts,
                 DepositsInFull(by, user, amount)
          PROVE  \E e \in {0, amount} : Deposits(by, user, amount, Ct(e))
      BY <3>1 DEF DepositsInFull, Deposits
    <3> QED BY <3>1 DEF FullyBookedNext, Next
  <2>2. VaultInv'
    BY <2>0, <2>1, VaultStep
  <2>3. ASSUME fullyBooked = TRUE
        PROVE  Encrypted' /\ Covering'
    <3>1. TvlInv /\ FullyBookedNext
      BY <2>0, <2>3 DEF TotalsInv, TvlInv
    <3>2. Bounded'
      BY <2>0, <2>3 DEF Bounded
    <3>3. TvlInv'
      BY <2>2, <3>1, <3>2, BookedStep
    <3> QED BY <3>3 DEF TvlInv
  <2> QED BY <2>0, <2>2, <2>3 DEF TotalsInv
<1> QED BY <1>2, <1>3, <1>4, <1>5 DEF MCNext

\* Whoever books in full what the tokens say has it covered: no strategy's encrypted
\* total falls below the collateral of its open positions, nor a collateral below its
\* deposit, whatever mismatched closes, withdrawals while paused, replaced strategies
\* and refused reports do (StrategyVault.sol:79 to 241, StrategyRegistry.sol:144 to
\* 166), for all amounts that fit the width.
THEOREM TotalsAlwaysCover == MCSpec => []TvlCoversPositions
<1>1. TotalsInv => TvlCoversPositions
  <2>1. SUFFICES ASSUME TotalsInv, fullyBooked = TRUE
                 PROVE  /\ \A id \in Open : Collateral(id) >= position[id].deposited
                        /\ \A s \in 1 .. MaxStrategies :
                              encryptedTvls[s].v >= Cardinality(Booked(s))
    BY DEF TotalsInv, TvlCoversPositions
  <2>2. \A id \in Open : Collateral(id) = collateral[id[1]][id].v
    BY <2>1 DEF TotalsInv, VaultInv, OpenOnes, Collateral
  <2> QED BY <2>1, <2>2 DEF TotalsInv, Covering
<1> QED BY TotalsStart, TotalsStep, <1>1, PTL DEF MCSpec
=============================================================================
