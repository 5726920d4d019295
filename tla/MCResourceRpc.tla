---------------------------- MODULE MCResourceRpc ----------------------------
EXTENDS ResourceRpc

CONSTANTS name, size, id, token, v1, v2

\* name: required; size: with a default; id: optional, computed and
\* requires_replace; token: write-only.
MCDefault == [a \in {size} |-> v1]

MCObject(n, s, i, t) ==
  [a \in {name, size, id, token} |-> IF a = name THEN n ELSE IF a = size THEN s
                                     ELSE IF a = id THEN i ELSE t]

\* Known configurations, and some with an unknown in each attribute that may hold one.
MCConfig ==
  {MCObject(v1, s, Null, t) : s \in {Null, v2}, t \in {Null, v1}}
    \cup {MCObject(v2, Null, Null, Null), MCObject(v1, Null, v1, Null)}
    \cup {MCObject(Unknown, Null, Null, v1), MCObject(v1, Unknown, Null, Null),
          MCObject(v1, Null, Unknown, Null)}

\* Plan hooks that leave id to apply or fill it in, ask for a replacement when size changes or
\* not, keep the private state or not: half of the combinations, each pair of choices among them.
MCAuthor ==
  {[fill |-> MCObject(Null, Null, IF fills THEN v1 ELSE Null, Null),
    asks |-> IF asks THEN {size} ELSE {}, keeps |-> (fills = asks)] : fills, asks \in BOOLEAN}

=============================================================================
