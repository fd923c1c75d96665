\* Sharing and cloning on the last free block.
SPECIFICATION Spec
CONSTANTS
    s1 = s1
    s2 = s2
    s3 = s3
    b1 = b1
    b2 = b2
    b3 = b3
    b4 = b4
    Sequence = {s1, s2, s3}
    Block = {b1, b2, b3, b4}
    BlockSize = 2
    Layer = {0}
    Value = {0, 1}
    Zero = 0
    MaxTokens = 3
SYMMETRY MCSymmetry
INVARIANT BlocksAccounted
PROPERTY ImplementsPrivatePages
