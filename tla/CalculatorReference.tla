------------------------ MODULE CalculatorReference ------------------------
(* What the formulas of -rpn and the boxes of -undefine, -ijundefine and   *)
(* -small_grib mean, stated without the stack, the loop and the caches of  *)
(* the program, and the properties that compare it with what Wgrib2 does.  *)
EXTENDS Wgrib2Reference

----------------------------------------------------------------------------
(* A formula is a sequence of definitions, each of a register or of the    *)
(* field of the record, of prints of one or two terms, and a term.  A term is [f |-> "start"] (the field  *)
(* on entry, leftmost only), "rcl" (the field of the record), "number" or   *)
(* "reg" with n, or an operation on terms x, or x and y, whose two operands *)
(* may be given in the other order and exchanged, or be the same.          *)

T(op) == [op |-> op, n |-> 0]
N(op, n) == [op |-> op, n |-> n]

RECURSIVE Postfix(_)
Postfix(t) ==
  CASE t.f = "start"  -> <<>>
    [] t.f = "rcl"    -> <<T("rcl")>>
    [] t.f = "number" -> <<N("number", t.n)>>
    [] t.f = "reg"    -> <<N("rcl_N", t.n)>>
    [] "z" \in DOMAIN t -> Postfix(t.z) \o <<T("dup"), T(t.f)>>
    [] t.f \in Binary -> IF t.swap THEN Postfix(t.y) \o Postfix(t.x) \o <<T("exc"), T(t.f)>>
                         ELSE Postfix(t.x) \o Postfix(t.y) \o <<T(t.f)>>
    [] t.f \notin Binary \cup {"start", "rcl", "number", "reg"} -> Postfix(t.x) \o <<T(t.f)>>

\* A definition puts its term into a register or, without a number, into the field.
Definition(d) ==
  Postfix(d.term) \o <<IF d.reg = -1 THEN T("sto") ELSE N("sto_N", d.reg), T("pop")>>

\* A print leaves the stack as it was.
Printing(d) ==
  IF d.op \in Prints1 THEN Postfix(d.x) \o <<T(d.op), T("pop")>>
  ELSE Postfix(d.x) \o Postfix(d.y) \o <<T(d.op), T("pop"), T("pop")>>

Tokens(formula) ==
  FlattenSeq([i \in DOMAIN formula.lets |-> Definition(formula.lets[i])])
    \o FlattenSeq([i \in DOMAIN formula.prints |-> Printing(formula.prints[i])])
    \o Postfix(formula.term)

\* Undefined where an operand is, except that merge takes what is defined.
Pair2(op, x, y) ==
  IF op = "merge" THEN IF y = None THEN x ELSE y
  ELSE IF x = None \/ y = None THEN None
  ELSE IF op \in {"/", "mask"} /\ y = 0 THEN None
  ELSE Combined(op, x, y)

OfRows(op, f, gds) ==
  LET at(i, k) == f[1 + i + k * gds.nx]
  IN  [p \in DOMAIN f |->
        LET i == (p - 1) % gds.nx
            k == (p - 1) \div gds.nx
        IN  CASE op = "yrev"       -> at(i, gds.ny - 1 - k)
              [] op = "alt_x_scan" -> at(IF k % 2 = 1 THEN gds.nx - 1 - i ELSE i, k)
              [] op = "xave"       -> IF at(i, k) = None THEN None ELSE RowMean(f, gds.nx, k)
              [] op = "xdev"       -> IF at(i, k) = None THEN None
                                      ELSE at(i, k) - RowMean(f, gds.nx, k)
              [] op = "smth9g"     -> smth9g(f, gds.nx, gds.ny)[p]]

\* The field a term stands for, env being [start, data, regs, gds].
RECURSIVE Meaning(_, _)
Meaning(t, env) ==
  LET same == DOMAIN env.data
  IN  CASE t.f = "start"  -> env.start
        [] t.f = "rcl"    -> env.data
        [] t.f = "number" -> [p \in same |-> t.n]
        [] t.f = "reg"    -> IF t.n \in DOMAIN env.regs THEN env.regs[t.n] ELSE [p \in same |-> 0]
        [] "z" \in DOMAIN t ->
             LET z == Meaning(t.z, env) IN [p \in same |-> Pair2(t.f, z[p], z[p])]
        [] t.f \in Binary -> LET x == Meaning(t.x, env)
                                 y == Meaning(t.y, env)
                             IN  [p \in same |-> Pair2(t.f, x[p], y[p])]
        [] t.f \in Unary  -> LET x == Meaning(t.x, env) IN [p \in same |-> Applied(t.f, x[p])]
        [] t.f \in Fields -> OfRows(t.f, Meaning(t.x, env), env.gds)

\* The field and the registers after a formula, and what it prints.
AfterFormula(formula, field, registers, gds) ==
  LET Define(env, d) ==
        LET value == Meaning(d.term, env)
        IN  IF d.reg = -1 THEN [env EXCEPT !.data = value]
            ELSE [env EXCEPT !.regs = With(@, d.reg, value)]
      end == FoldLeft(Define, [start |-> field, data |-> field, regs |-> registers, gds |-> gds],
                      formula.lets)
      Shown(k) == LET d == formula.prints[k]
                      y == IF d.op \in Prints1 THEN d.x ELSE d.y
                  IN  [print |-> d.op,
                       value |-> Printed(d.op, Meaning(d.x, end), Meaning(y, end), get_latlon(gds))]
  IN  [data |-> Meaning(formula.term, end), regs |-> end.regs,
       prints |-> [k \in DOMAIN formula.prints |-> Shown(k)]]

----------------------------------------------------------------------------
(* Boxes. *)

\* A point is in a box when one of its longitudes is between those of the box, that goes
\* eastward.
InRegion(b, pt) ==
  LET east == IF b.lonE < b.lonW THEN b.lonE + 360 ELSE b.lonE
  IN  /\ pt.lat \in b.latS .. b.latN
      /\ \E turn \in -2 .. 2 : pt.lon + 360 * turn \in b.lonW .. east

Inside(o, p, gds, pts) ==
  IF o.kind = "undefine" THEN InRegion(o.box, pts[p])
  ELSE /\ ((p - 1) % gds.nx) + 1 >= o.dom.ix0 /\ ((p - 1) % gds.nx) + 1 <= o.dom.ix1
       /\ (p - 1) \div gds.nx + 1 >= o.dom.iy0 /\ (p - 1) \div gds.nx + 1 <= o.dom.iy1

AfterUndefine(o, field, gds) ==
  LET pts == get_latlon(gds)
      Gone(p) == IF o.kind = "undefine_val"
                 THEN IF field[p] = None THEN TRUE ELSE field[p] >= o.low /\ field[p] <= o.high
                 ELSE o.in = Inside(o, p, gds, pts)
  IN  IF o.kind = "undefine" /\ pts = None THEN field
      ELSE [p \in DOMAIN field |-> IF Gone(p) THEN None ELSE field[p]]

----------------------------------------------------------------------------
(* The whole run: each record through each option, with the registers and  *)
(* the place in the other file of -import_grib going on.                   *)

\* The value of each point where the file has it.
InFileOrder(c0, vals) ==
  LET nx == c0[3].nx
      at(p) == FilePoint(c0, (p - 1) % nx, (p - 1) \div nx)
  IN  [q \in DOMAIN vals |-> vals[CHOOSE p \in DOMAIN vals : at(p) = q]]

ImportedField(o, k) ==
  LET all == Concat([m \in 1 .. Len(o.messages) |->
               [n \in 1 .. num_submsgs(o.messages[m]) |->
                 Contents(o.messages[m], Submessage(o.messages[m], n))]])
  IN  InOrder(all[k])

\* The state is [data, regs, on, imports, out, prints]: whether the conditions since the
\* last output hold, the records imported by each option, what each file is given.
OneOption(st, i, r) ==
  LET o == arglist[i]
      Follow(after) == [st EXCEPT !.data = after.data, !.regs = after.regs,
                                  !.prints = @ \o after.prints]
      Written(v) == [st EXCEPT !.out[o.file] = Append(@, v)]
  IN  IF ~st.on THEN [st EXCEPT !.on = o.kind \in Output]
      ELSE CASE o.kind = "rpn"         -> Follow(AfterFormula(o.formula, st.data, st.regs, r.c[3]))
             [] o.kind = "rpn_rcl"     -> [st EXCEPT !.data = st.regs[o.n]]
             [] o.kind = "rpn_sto"     -> [st EXCEPT !.regs = With(@, o.n, st.data)]
             [] o.kind \in Undefining -> [st EXCEPT !.data = AfterUndefine(o, @, r.c[3])]
             [] o.kind = "import_grib" -> [st EXCEPT !.data = ImportedField(o, st.imports[i] + 1),
                                                     !.imports[i] = @ + 1]
             [] o.kind \in Imports     -> [st EXCEPT !.data = o.fields[st.imports[i] + 1],
                                                     !.imports[i] = @ + 1]
             [] o.kind = "if_reg"      -> [st EXCEPT !.on = o.regs \subseteq DOMAIN st.regs]
             [] o.kind \in Conditional -> [st EXCEPT !.on = Holds(o, r)]
             [] o.kind = "bin"         -> Written(st.data)
             [] o.kind = "grib_out"    -> Written(grib_wrt(r.c, r.c[4], InFileOrder(r.c, st.data)))
             [] OTHER                  -> st

OneRecord(st, r) ==
  FoldLeft(LAMBDA s, i : OneOption(s, i, r), [st EXCEPT !.data = InOrder(r.c), !.on = TRUE],
           [i \in 1 .. Len(arglist) |-> i])

Calculated ==
  FoldLeft(OneRecord,
           [data |-> <<>>, regs |-> <<>>, on |-> TRUE,
            imports |-> [i \in 1 .. Len(arglist) |-> 0], out |-> [f \in FileNames |-> <<>>], prints |-> <<>>],
           Selection)

Agrees(meant) ==
  /\ \A f \in FilesOf({"bin", "grib_out"}) : files[f] = Before(f) \o meant.out[f]
  /\ SelectSeq(inventory, LAMBDA e : "print" \in DOMAIN e) = meant.prints

\* -rpn, -rpn_sto, -rpn_rcl, -if_reg, -import_grib and the options that undefine points
\* together give what their formulas mean: the operands in their order, undefined where
\* one is, the registers those of the record that stored them last, whichever records
\* have been passed over since, and the field of a record never that of another.
CalculatedRight ==
  phase = "done" /\ Having(Calculations) # {} =>
    Agrees(Calculated)

----------------------------------------------------------------------------
(* Subsets. *)

\* The values of a record, each with the place on the earth its section 3 gives it.
PlacedAt(c0, pts) ==
  LET flat == [p \in 1 .. npnts(c0) |-> FilePoint(c0, (p - 1) % c0[3].nx, (p - 1) \div c0[3].nx)]
  IN  IF pts \in {None, Refused} THEN None
      ELSE {[at |-> pts[p], val |-> unpk_grib(c0)[flat[p]]] : p \in 1 .. npnts(c0)}

Placed(c0) == PlacedAt(c0, get_latlon(c0[3]))

AxisGrid(gds) == gds.gdt \in {0, 10} /\ gds.nx > 1 /\ gds.ny > 1

\* A row of the grid leaves the box over its eastern edge and comes back over the western.
Split(box, gds, pts) ==
  LET Eastward(p) == (pts[p].lon - box.lonW + 720) % 360
  IN  \E p, q \in DOMAIN pts :
        /\ p < q /\ (p - 1) \div gds.nx = (q - 1) \div gds.nx
        /\ InRegion(box, pts[p]) /\ InRegion(box, pts[q])
        /\ Eastward(p) > Eastward(q)

\* all are the points of the record, got those of the part cut to a box: for a grid of parallels and meridians the points in
\* the box, for another one at least those, the whole grid when there is none.  ("The code
\* has a mistake" for other grids, Small_grib.c:329: where the box splits a row.)
CutTo(box, gds, all, got) ==
  LET wanted == {v \in all : InRegion(box, v.at)}
  IN  IF wanted = {} THEN got = all
      ELSE IF AxisGrid(gds) THEN got = wanted
      ELSE /\ Split(box, gds, get_latlon(gds)) \/ wanted \subseteq got
           /\ got \subseteq all

\* The points of columns and rows counted from the south west, around the earth.
CutToColumns(dom, gds, all, got) ==
  LET nx == gds.nx
      pts == get_latlon(gds)
      place(i, k) == 1 + ((i - 1) % nx) + (k - 1) * nx
      wanted == {place(i, k) : i \in dom.ix0 .. dom.ix1, k \in dom.iy0 .. dom.iy1}
  IN  got = {v \in all : \E p \in wanted : pts[p] = v.at}

CanBeCut(s) == \A k \in DOMAIN s : s[k][3].gdt \in Cornered \cup Anchored

SubsetOf(o, in, out) ==
  /\ in[1] = out[1] /\ in[4] = out[4]
  /\ IF o.kind = "small_grib" THEN CutTo(o.box, in[3], Placed(in), Placed(out))
     ELSE CutToColumns(o.dom, in[3], Placed(in), Placed(out))

Subset(o, s, part) ==
  Len(part) = Len(s) /\ \A k \in DOMAIN s : SubsetOf(o, s[k], part[k])

\* -small_grib and -ijsmall_grib write each value at the place on the earth it had, for
\* each grid and each order of the file, also when the grid changes or goes around the
\* earth: all points of the box, and no others where the grid allows it.
SubsetRight ==
  phase = "done" =>
    \A i \in Having(Cutting) :
      Writers(arglist[i].file) = {i} /\ CanBeCut(Fed(i)) =>
        Subset(arglist[i], Fed(i), ReadBack(arglist[i].file))
=============================================================================
