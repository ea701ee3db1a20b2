CONSTANTS p1 = p1
          p2 = p2
          a = a
          b = b
          NUL = NUL
          Procs = {p1, p2}
          Chars = {a, b}
          BUF_LEN = 2
          Lengths = {1}
          Texts <- ShortAndLong
          Ops <- AllOps
          Users = {p1, p2}
          Echoes = {p1}
          TextSize = 2
          Counts = {1, 2}
          Written <- OneToThree
SPECIFICATION MCSpec
INVARIANTS StopsInside ExclusionIsKept
PROPERTIES GetReturnsLastSet ReadsAreWhole CatGetsText
