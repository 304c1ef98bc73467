---- MODULE MCZTransfer ----
EXTENDS ZTransfer

\* One dimension: chunk length, unlimited, first length, bounds.
Dim(chunk, unlimited, len, start, count, stride, most) ==
    [chunk |-> chunk, unlimited |-> unlimited, len |-> len,
     start |-> start, count |-> count, stride |-> stride, most |-> most]

\* A variable of such dimensions.
Var(d) == [chunk |-> [r \in DOMAIN d |-> d[r].chunk], unlimited |-> [r \in DOMAIN d |-> d[r].unlimited],
           len |-> [r \in DOMAIN d |-> d[r].len], start |-> [r \in DOMAIN d |-> d[r].start],
           count |-> [r \in DOMAIN d |-> d[r].count], stride |-> [r \in DOMAIN d |-> d[r].stride],
           most |-> [r \in DOMAIN d |-> d[r].most]]

\* Lengths that are and are not multiples of the chunk, strides below, at and
\* beyond the chunk length, an unlimited dimension that starts empty.
MCShapes ==
    {Var(<<Dim(c, FALSE, 7, 0 .. 7, 0 .. 7, 0 .. 5, 7)>>) : c \in {1, 2, 3, 4, 7}} \cup
    {Var(<<Dim(c, TRUE, 0, 0 .. 4, 0 .. 4, {1}, 6)>>) : c \in {1, 2, 3}} \cup
    {Var(<<Dim(2, FALSE, 3, 0 .. 3, 1 .. 3, 1 .. 3, 3), Dim(2, FALSE, 5, 0 .. 4, 1 .. 3, 1 .. 3, 5)>>),
     Var(<<Dim(1, TRUE, 0, 0 .. 2, 1 .. 2, {1}, 3), Dim(2, FALSE, 3, 0 .. 2, 1 .. 3, {1}, 3)>>)}

\* An unlimited dimension written with strides.
UnlimitedShapes == {Var(<<Dim(c, TRUE, 0, 0 .. 2, 1 .. 2, 1 .. 4, 6)>>) : c \in {1, 4}}
====
