----------------------------- MODULE Calculator -----------------------------
(* wgrib2's reverse Polish calculator (RPN.c): -rpn, -rpn_rcl, -rpn_sto    *)
(* and -if_reg.  A formula is a sequence of tokens [op, n], n being the    *)
(* number or the register.  The registers keep their fields from record to *)
(* record; the stack begins with the field of the record.  Fields are      *)
(* sequences of integers, None being UNDEFINED.                            *)
EXTENDS GridPoints, TimeSeries, SequencesExt

CONSTANTS
  Quotient(_, _),     \* the quotient of two numbers
  Libm(_, _),         \* a function of the C library by its name and arguments
  CosLat(_),          \* the weight of a latitude
  DaysInMonth(_)      \* the days in the month of a time

STACK_SIZE == 10
N_RPN_REGS == 20

----------------------------------------------------------------------------
(* One point. *)

\* Two operands: x from below the top of the stack, y from the top.
Arithmetic(op, x, y) ==
  CASE op = "+" -> x + y
    [] op = "-" -> x - y
    [] op = "*" -> x * y
    [] op = "/" -> IF y = 0 THEN None ELSE Quotient(x, y)

Truth(b) == IF b THEN 1 ELSE 0

Comparison(op, x, y) ==
  CASE op = ">"   -> Truth(x > y)
    [] op = ">="  -> Truth(x >= y)
    [] op = "!="  -> Truth(x # y)
    [] op = "=="  -> Truth(x = y)
    [] op = "<"   -> Truth(x < y)
    [] op = "<="  -> Truth(x <= y)
    [] op = "max" -> IF x < y THEN y ELSE x
    [] op = "min" -> IF x > y THEN y ELSE x

Masked(x, y) == IF y = 0 THEN None ELSE x

\* Mutant: a value is merged where the field below has none only.
MergeKept(x, y) == IF x # None THEN x ELSE y

Merge(x, y) == IF y # None THEN y ELSE x

Arithmetics == {"+", "-", "*", "/"}
Comparisons == {">", ">=", "!=", "==", "<", "<=", "max", "min"}
Powers == {"pow", "atan2"}
Binary == Arithmetics \cup Comparisons \cup Powers \cup {"mask", "merge"}

Combined(op, x, y) ==
  IF op = "merge" THEN Merge(x, y)
  ELSE IF None \in {x, y} THEN None
  ELSE CASE op \in Arithmetics -> Arithmetic(op, x, y)
         [] op \in Comparisons -> Comparison(op, x, y)
         [] op \in Powers      -> Libm(op, <<x, y>>)
         [] op = "mask"        -> Masked(x, y)

\* One operand.  What is not in the domain of the function is undefined.
Unary ==
  {"sqrt", "sq", "ln", "exp", "abs", "1/x", "floor", "ceil", "sin", "cos", "tan", "asin",
   "acos", "atan"}

OutOfDomain(op, x) ==
  \/ op = "sqrt" /\ x < 0
  \/ op = "ln" /\ x <= 0
  \/ op = "1/x" /\ x = 0
  \/ op \in {"asin", "acos"} /\ (x > 1 \/ x < -1)

Applied(op, x) ==
  IF x = None THEN None
  ELSE IF OutOfDomain(op, x) THEN None
  ELSE CASE op = "1/x" -> Quotient(1, x)
         [] op = "sq"  -> x * x
         [] op = "abs" -> IF x < 0 THEN -x ELSE x
         [] OTHER      -> Libm(op, <<x>>)

----------------------------------------------------------------------------
(* Fields of nx columns and ny rows. *)

PlaceOf(nx, i, k) == i + 1 + k * nx
Column(nx, p) == (p - 1) % nx
RowOf(nx, p) == (p - 1) \div nx

yrev(f, nx, ny) == [p \in DOMAIN f |-> f[PlaceOf(nx, Column(nx, p), ny - 1 - RowOf(nx, p))]]

\* Every other row the other way.
alt_x_scan(f, nx) ==
  [p \in DOMAIN f |-> IF RowOf(nx, p) % 2 = 0 THEN f[p]
                      ELSE f[PlaceOf(nx, nx - 1 - Column(nx, p), RowOf(nx, p))]]

\* The mean of the values of the row that are defined, 0 without any.
RowMean(f, nx, k) ==
  LET there == {i \in 0 .. nx - 1 : f[PlaceOf(nx, i, k)] # None}
      sum == SumFunction([i \in there |-> f[PlaceOf(nx, i, k)]])
  IN  IF there = {} THEN 0 ELSE Quotient(sum, Cardinality(there))

xave(f, nx) ==
  [p \in DOMAIN f |-> IF f[p] = None THEN None ELSE RowMean(f, nx, RowOf(nx, p))]

xdev(f, nx) ==
  [p \in DOMAIN f |-> IF f[p] = None THEN None ELSE f[p] - RowMean(f, nx, RowOf(nx, p))]

\* The neighbours of a point, each with its weight in tenths: those outside are left
\* out, the columns of a global field go around.
Weight(di, dk) == IF di = 0 /\ dk = 0 THEN 10 ELSE IF di = 0 \/ dk = 0 THEN 5 ELSE 3

gbl_wt(f, nx, ny, i, k) ==
  LET Around(x) == IF x = -1 THEN nx - 1 ELSE IF x = nx THEN 0 ELSE x
  IN  {d \in (-1 .. 1) \X (-1 .. 1) :
         k + d[2] \in 0 .. ny - 1 /\ f[PlaceOf(nx, Around(i + d[1]), k + d[2])] # None}

reg_wt(f, nx, ny, i, k) ==
  {d \in (-1 .. 1) \X (-1 .. 1) :
     /\ i + d[1] \in 0 .. nx - 1 /\ k + d[2] \in 0 .. ny - 1
     /\ f[PlaceOf(nx, i + d[1], k + d[2])] # None}

Smooth(f, nx, near, i, k) ==
  LET part == [d \in near |-> Weight(d[1], d[2])]
      share == [d \in near |-> part[d] * f[PlaceOf(nx, (i + d[1] + nx) % nx, k + d[2])]]
  IN  IF near = {} THEN None ELSE Quotient(SumFunction(share), SumFunction(part))

smth9g(f, nx, ny) ==
  [p \in DOMAIN f |->
    LET i == Column(nx, p)
        k == RowOf(nx, p)
    IN  Smooth(f, nx, gbl_wt(f, nx, ny, i, k), i, k)]

\* The loop over the rows is m, but the value goes to row j, the index left by an earlier
\* token: the values of the last row stay there.  Another row is written outside.
smth9r(f, nx, ny, row) ==
  [p \in DOMAIN f |->
    LET i == Column(nx, p)
    IN  IF RowOf(nx, p) # row THEN f[p]
        ELSE Smooth(f, nx, reg_wt(f, nx, ny, i, ny - 1), i, ny - 1)]

----------------------------------------------------------------------------
(* What is printed: fractions, the weight of a point being that of its     *)
(* latitude where the latitudes are known.                                 *)

Here(f) == {p \in DOMAIN f : f[p] # None}

PointWeight(pts, p) == IF pts = None THEN 1 ELSE CosLat(pts[p].lat)

print_max(f) ==
  IF Here(f) = {} THEN <<0>> ELSE <<CHOOSE v \in {f[p] : p \in Here(f)} : \A p \in Here(f) : v >= f[p]>>
print_min(f) ==
  IF Here(f) = {} THEN <<0>> ELSE <<CHOOSE v \in {f[p] : p \in Here(f)} : \A p \in Here(f) : v <= f[p]>>

\* The sum of a function of the point over the sum of the weights, <<>> for undefined.
WeightedMean(v, pts) ==
  LET weights == [p \in DOMAIN v |-> PointWeight(pts, p)]
      wt == SumFunction(weights)
  IN  IF wt = 0 THEN <<>>
      ELSE <<SumFunction([p \in DOMAIN v |-> v[p] * weights[p]]), wt>>

print_ave(f, pts) == WeightedMean([p \in Here(f) |-> f[p]], pts)
print_diff(x, y, pts) == WeightedMean([p \in Here(x) \cap Here(y) |-> x[p] - y[p]], pts)

\* The square of the root mean square difference.
print_rms(x, y, pts) ==
  WeightedMean([p \in Here(x) \cap Here(y) |-> (y[p] - x[p]) * (y[p] - x[p])], pts)

\* The weights are the field on the top.
print_wt_ave(x, y) ==
  LET S == Here(x) \cap Here(y)
      sum2 == SumFunction([p \in S |-> y[p]])
      sum1 == SumFunction([p \in S |-> x[p] * y[p]])
  IN  IF sum2 = 0 THEN <<sum1>> ELSE <<sum1, sum2>>

\* The covariance and the two variances; 1 when one is 0, not a number without points.
Correlation(wt, sq12, sq1, sq2) ==
  IF wt = 0 THEN <<>> ELSE IF sq1 = 0 \/ sq2 = 0 THEN <<1>> ELSE <<sq12, sq1, sq2>>

print_corr(x, y, pts) ==
  LET S == Here(x) \cap Here(y)
      Sum(v(_)) == SumFunction([p \in S |-> PointWeight(pts, p) * v(p)])
      wt == Sum(LAMBDA p : 1)
      Product(u, v) == wt * Sum(LAMBDA p : u[p] * v[p])
                         - Sum(LAMBDA p : u[p]) * Sum(LAMBDA p : v[p])
  IN  Correlation(wt, Product(x, y), Product(x, x), Product(y, y))

Prints1 == {"print_max", "print_min", "print_ave"}
Prints2 == {"print_diff", "print_rms", "print_wt_ave", "print_corr"}

Printed(op, x, y, pts) ==
  CASE op = "print_max"    -> print_max(y)
    [] op = "print_min"    -> print_min(y)
    [] op = "print_ave"    -> print_ave(y, pts)
    [] op = "print_diff"   -> print_diff(x, y, pts)
    [] op = "print_rms"    -> print_rms(x, y, pts)
    [] op = "print_wt_ave" -> print_wt_ave(x, y)
    [] op = "print_corr"   -> print_corr(x, y, pts)

----------------------------------------------------------------------------
(* The stack.  st is [stack, data, regs, row, out, pending, ok]: the top   *)
(* of the stack is its last field, row the index j an earlier token left,  *)
(* pending what print_wt_ave wrote without moving on in the line, ok       *)
(* whether the program goes on.                                            *)

Scalar(st, v) == [p \in DOMAIN st.data |-> v]

Fatal(st) == [st EXCEPT !.ok = FALSE]

push(st, f) ==
  IF Len(st.stack) = STACK_SIZE THEN Fatal(st)
  ELSE [st EXCEPT !.stack = Append(@, f)]

Top(st) == st.stack[Len(st.stack)]
Under(st) == st.stack[Len(st.stack) - 1]
Drop(st, k) == SubSeq(st.stack, 1, Len(st.stack) - k)
Replace(st, f) == [st EXCEPT !.stack = Append(Drop(st, 1), f)]

\* The index of the field below the top.
Below(st) == Len(st.stack) - 2

Fields == {"yrev", "alt_x_scan", "xave", "xdev", "smth9g", "smth9r"}

\* The fields a token needs on the stack: without them the program stops (dup of an empty
\* stack reads the pointer before its first one).
Needed(op) ==
  CASE op \in Binary \cup Prints2 \cup {"exc"} -> 2
    [] op \in Unary \cup Prints1 \cup Fields \cup {"pop", "dup", "sto_N", "sto"} -> 1
    [] OTHER -> 0

BinaryToken(op, st) ==
  [st EXCEPT !.stack = Append(Drop(st, 2),
               [p \in DOMAIN st.data |-> Combined(op, Under(st)[p], Top(st)[p])]),
             !.row = Below(st)]

UnaryToken(op, st) == Replace(st, [p \in DOMAIN st.data |-> Applied(op, Top(st)[p])])

Exchange(st) == [st EXCEPT !.stack = Drop(st, 2) \o <<Top(st), Under(st)>>, !.row = Below(st)]

\* Data whose rows go from west to east in the file are needed to turn or smooth them.
FieldToken(op, st, gds) ==
  LET f == Top(st)
      east == gds.scan \div 16 \in {0, 4}
  IN  IF \/ op \in {"yrev", "smth9g", "smth9r"} /\ ~east
         \/ op \in {"smth9g", "smth9r"} /\ Len(st.stack) = STACK_SIZE
      THEN Fatal(st)
      ELSE
        CASE op = "yrev"       -> Replace(st, yrev(f, gds.nx, gds.ny))
        [] op = "smth9g"     -> Replace(st, smth9g(f, gds.nx, gds.ny))
        [] op = "smth9r"     -> Replace(st, smth9r(f, gds.nx, gds.ny, st.row))
        [] op = "alt_x_scan" -> Replace(st, alt_x_scan(f, gds.nx))
        [] op = "xave"       -> Replace(st, xave(f, gds.nx))
        [] op = "xdev"       -> Replace(st, xdev(f, gds.nx))

With(regs, n, f) == [k \in DOMAIN regs \cup {n} |-> IF k = n THEN f ELSE regs[k]]
Without(regs, n) == [k \in DOMAIN regs \ {n} |-> regs[k]]

StoN(n, st) == [st EXCEPT !.regs = With(@, n, Top(st)), !.row = n]

\* A register that was never stored is 0 everywhere.
RclN(n, st) ==
  LET now == [st EXCEPT !.row = n]
  IN  IF n \notin DOMAIN st.regs THEN push(now, Scalar(st, 0))
      ELSE IF Len(st.regs[n]) # Len(st.data) THEN Fatal(st)
      ELSE push(now, st.regs[n])

ClrN(n, st) == [st EXCEPT !.regs = Without(@, n), !.row = n]

RclPoint(op, st, pts) ==
  IF pts = None THEN Fatal(st)
  ELSE push(st, [p \in DOMAIN st.data |-> IF op = "rcl_lat" THEN pts[p].lat ELSE pts[p].lon])

\* A print moves on in the line, but for print_wt_ave: the next one overwrites it.
PrintToken(op, st, pts) ==
  LET x == IF op \in Prints2 THEN Under(st) ELSE <<>>
      value == <<[print |-> op, value |-> Printed(op, x, Top(st), pts)]>>
      next == op # "print_wt_ave"
  IN  [st EXCEPT !.row = IF op \in Prints2 THEN Below(st) ELSE @,
                 !.out = IF next THEN @ \o value ELSE @,
                 !.pending = IF next THEN <<>> ELSE value]

Registers == {"sto_N", "rcl_N", "clr_N"}

\* The record's sections c, the points of its grid, a number drawn at random.
Token(t, st, c, pts, rand) ==
  IF ~st.ok THEN st
  ELSE IF \/ Len(st.stack) < Needed(t.op)
          \/ t.op \in Registers /\ t.n \notin 0 .. N_RPN_REGS - 1
  THEN Fatal(st)
  ELSE
    CASE t.op \in Binary                 -> BinaryToken(t.op, st)
    [] t.op \in Unary                  -> UnaryToken(t.op, st)
    [] t.op \in Fields                 -> FieldToken(t.op, st, c[3])
    [] t.op \in Prints1 \cup Prints2   -> PrintToken(t.op, st, pts)
    [] t.op = "exc"                    -> Exchange(st)
    [] t.op = "pop"                    -> [st EXCEPT !.stack = Drop(st, 1)]
    [] t.op = "clr"                    -> [st EXCEPT !.stack = <<>>]
    [] t.op = "dup"                    -> push(st, Top(st))
    [] t.op = "sto_N"                  -> StoN(t.n, st)
    [] t.op = "rcl_N"                  -> RclN(t.n, st)
    [] t.op = "clr_N"                  -> ClrN(t.n, st)
    [] t.op \in {"rcl_lat", "rcl_lon"} -> RclPoint(t.op, st, pts)
    [] t.op = "rcl"                    -> push(st, st.data)
    [] t.op = "sto"                    -> [st EXCEPT !.data = Top(st)]
    [] t.op \in {"number", "pi"}       -> push(st, Scalar(st, t.n))
    [] t.op = "rand"                   -> push(st, Scalar(st, rand))
    [] t.op = "days_in_ref_month"      -> push(st, Scalar(st, DaysInMonth(c[1].ref)))
    [] t.op = "days_in_verf_month"     -> push(st, Scalar(st, DaysInMonth(verftime(c))))
    [] OTHER                           -> Fatal(st)

\* The top of the stack becomes the field of the record.
Answered(st) ==
  IF ~st.ok THEN st
  ELSE IF st.stack = <<>> THEN Fatal(st)
  ELSE [st EXCEPT !.data = Top(st), !.out = @ \o st.pending]

\* The whole formula.  row and rand are what an uninitialised index and the random numbers
\* happen to be.
f_rpn(tokens, data, regs, c, pts, row, rand) ==
  LET start == [stack |-> <<data>>, data |-> data, regs |-> regs, row |-> row,
                out |-> <<>>, pending |-> <<>>, ok |-> TRUE]
  IN  Answered(FoldLeft(LAMBDA st, t : Token(t, st, c, pts, rand), start, tokens))

\* A register is needed that fits.
f_rpn_rcl(n, data, regs) ==
  IF n \notin DOMAIN regs THEN None
  ELSE IF Len(regs[n]) # Len(data) THEN None
  ELSE regs[n]

f_rpn_sto(n, data, regs) == With(regs, n, data)

\* The flag of -if_reg.
f_if_reg(ns, regs) == IF ns \subseteq DOMAIN regs THEN 0 ELSE 1
=============================================================================
