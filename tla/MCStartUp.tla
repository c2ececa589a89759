------------------------------- MODULE MCStartUp -------------------------------
EXTENDS StartUp

Words == {"main", "cache", "m", "c"}

\* A byte of two bits.
Byte == 4

Store(name, pool, driver, wellFormed, password) ==
  [name |-> name, pool |-> pool, driver |-> driver,
   wellFormed |-> wellFormed, password |-> password]

\* Pools that are no number, zero, in range, and one and two values too large.
Entries ==
  {Store(n, p, d, f, FALSE) :
     n \in {"main", "cache", None}, p \in {None, 0, 1, 3, 4, 5, -1},
     d \in Drivers, f \in BOOLEAN}
  \cup {Store(n, p, "no_sql/redis", f, TRUE) :
          n \in {"main", "cache"}, p \in {2, 6}, f \in BOOLEAN}

\* An int of four bits, which the default number of threads fits.
LargestInt == 7

\* No section; aliases of stores that may be missing and one without a name; one
\* without a value; one with neither.
Settings ==
  {[aliases |-> [a \in {} |-> None], threads |-> None],
   [aliases |-> [a \in {"m", "c", None} |-> IF a = "m" THEN "main" ELSE "cache"],
    threads |-> 2],
   [aliases |-> [a \in {"m", "c"} |-> IF a = "m" THEN "main" ELSE None],
    threads |-> 2],
   [aliases |-> [a \in {"m", None} |-> IF a = "m" THEN "main" ELSE None],
    threads |-> -1]}

\* At and beyond the ends of an int.
Limits ==
  {[aliases |-> [a \in {} |-> None], threads |-> n] : n \in {-9, -8, 0, 7, 8}}

FilesOf(arrays, settings) ==
  {[stores |-> s, aliases |-> x.aliases, threads |-> x.threads] :
     s \in arrays, x \in settings}

Files ==
  FilesOf(UNION {[1..n -> Entries] : n \in 0..2}, Settings)
  \cup FilesOf({<<>>} \cup [1..1 -> Entries], Limits)
=============================================================================
