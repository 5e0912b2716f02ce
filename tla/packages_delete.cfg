\* Two requests at a time over the packages of the code and one more.
SPECIFICATION Spec
CONSTANTS
    starter = starter
    pro = pro
    custom = custom
    missing = missing
    h1 = h1
    h2 = h2
    h3 = h3
    Names = {starter, pro, custom}
    Seeds = {starter, pro}
    Starter = starter
    NoName = NoName
    Handlers = {h1, h2}
PROPERTIES
    DefaultStays
